---- MODULE Spec2Model ----
(***************************************************************************)
(* Terminal emulation core of tabssh/desktop: the screen buffer            *)
(* (src/src/terminal/buffer.rs), the escape sequence performer             *)
(* (src/src/terminal/parser.rs) driven by the vte state machine, and the   *)
(* Terminal facade (src/src/terminal/mod.rs).                              *)
(*                                                                         *)
(* Buffer operations are operators from a buffer record to a buffer        *)
(* record.  Vec indices are the 0-based indices of the Rust code; the      *)
(* helpers At, VecRemove and VecInsert translate them to TLA+ sequences.   *)
(* A Rust panic (index out of range in Vec::remove / Vec::insert) is       *)
(* recorded in the field `panicked` of the buffer record: the call         *)
(* unwinds and nothing runs afterwards.                                    *)
(***************************************************************************)
EXTENDS Integers, Sequences, FiniteSets, TLC

VARIABLES
    buffer,     \* TerminalParser.buffer : TerminalBuffer
    parser,     \* TerminalParser.parser : vte::Parser
    last,       \* history: the last call made on the terminal, its arguments, what it found
    fed,        \* history: the bytes given to process() since construction
    snap,       \* history: the primary grid and cursor when the alternate screen was entered
    vt,         \* a VtParser
    vt_seq,     \* history: the bytes of the last CSI sequence given to vt.parse()
    emulator    \* the object of emulator.rs: its scrollback, the rows search reads

vars == <<buffer, parser, last, fed, snap, vt, vt_seq, emulator>>

\* ---------------------------------------------------------------- bounds

MaxCols == 2
MaxRows == 2
MaxScrollback == 2
MaxChunk == 3       \* the longest byte string given to one call of process
MaxFed == 5         \* the most bytes given to a terminal in all

\* ------------------------------------------------------------- utilities

Min(a, b) == IF a < b THEN a ELSE b
Max(a, b) == IF a > b THEN a ELSE b

U16_MAX == 65535

\* x.saturating_sub(y) on unsigned integers
SatSub(x, y) == IF x > y THEN x - y ELSE 0

\* Option::None
None == [none |-> TRUE]
Some(v) == [none |-> FALSE, val |-> v]

\* v[i] for a Vec v and a 0-based index i
At(v, i) == v[i + 1]
\* Vec::remove(i): the caller checks i < len
VecRemove(v, i) == [k \in 1..(Len(v) - 1) |-> IF k <= i THEN v[k] ELSE v[k + 1]]
\* Vec::insert(i, e): the caller checks i <= len
VecInsert(v, i, e) ==
    [k \in 1..(Len(v) + 1) |-> IF k <= i THEN v[k] ELSE IF k = i + 1 THEN e ELSE v[k - 1]]
\* Vec::pop()
VecPop(v) == SubSeq(v, 1, Len(v) - 1)

\* ------------------------------------------------------- mod.rs: Color

rgb(r, g, b) == [r |-> r, g |-> g, b |-> b]
BLACK == rgb(0, 0, 0)
WHITE == rgb(229, 229, 229)

\* ------------------------------------------------------------- cell.rs

CellAttributesDefault ==
    [bold |-> FALSE, italic |-> FALSE, underline |-> FALSE, strikethrough |-> FALSE,
     dim |-> FALSE, inverse |-> FALSE, hidden |-> FALSE, blink |-> FALSE]

SPACE == 32

CellDefault ==
    [character |-> SPACE, fg |-> WHITE, bg |-> BLACK, attrs |-> CellAttributesDefault]

\* Cell::clear: the character and the attributes; fg and bg are kept
CellClear(cell) == [cell EXCEPT !.character = SPACE, !.attrs = CellAttributesDefault]

\* ----------------------------------------------------------- buffer.rs

\* (0..cols).map(|_| Cell::default()).collect()
EmptyRow(cols) == [x \in 1..cols |-> CellDefault]

create_empty_screen(cols, rows) == [y \in 1..rows |-> EmptyRow(cols)]

TerminalBufferNew(cols, rows, max_scrollback) ==
    [screen |-> create_empty_screen(cols, rows),
     scrollback |-> <<>>,
     max_scrollback |-> max_scrollback,
     size |-> [cols |-> cols, rows |-> rows],
     cursor_x |-> 0,
     cursor_y |-> 0,
     saved_cursor_x |-> 0,
     saved_cursor_y |-> 0,
     current_attrs |-> CellAttributesDefault,
     current_fg |-> WHITE,
     current_bg |-> BLACK,
     scroll_top |-> 0,
     scroll_bottom |-> rows - 1,
     alternate_screen |-> None,
     alternate_cursor |-> None,
     origin_mode |-> FALSE,
     auto_wrap |-> TRUE,
     insert_mode |-> FALSE,
     panicked |-> FALSE]

cursor_position(b) == <<b.cursor_x, b.cursor_y>>

scrollback_len(b) == Len(b.scrollback)

\* set_cursor without the two min(): the position is taken as given
set_cursor_unclamped(b, x, y) ==
    [b EXCEPT !.cursor_x = x,
              !.cursor_y = IF b.origin_mode THEN y + b.scroll_top ELSE y]

\* set_cursor: x clamped to the last column; y clamped to the last row, or,
\* in origin mode, offset by scroll_top and clamped to scroll_bottom
set_cursor(b, x, y) ==
    LET max_x == b.size.cols - 1
        max_y == b.size.rows - 1
    IN [b EXCEPT !.cursor_x = Min(x, max_x),
                 !.cursor_y = IF b.origin_mode
                              THEN Min(y + b.scroll_top, b.scroll_bottom)
                              ELSE Min(y, max_y)]

move_cursor(b, dx, dy) ==
    LET new_x == Max(b.cursor_x + dx, 0)
        new_y == Max(b.cursor_y + dy, 0)
    IN set_cursor(b, new_x, new_y)

\* the shift loop of scroll_up: for y in scroll_top..scroll_bottom, in
\* increasing order, screen[y] = screen[y + 1] when y + 1 < screen.len()
RECURSIVE ShiftUp(_, _, _)
ShiftUp(screen, y, bottom) ==
    IF y >= bottom THEN screen
    ELSE ShiftUp(IF y + 1 < Len(screen)
                 THEN [screen EXCEPT ![y + 1] = screen[y + 2]]
                 ELSE screen,
                 y + 1, bottom)

\* eviction that drops the rows pushed last (pop) instead of the oldest
EvictNewest(scrollback, max_scrollback) ==
    IF Len(scrollback) > max_scrollback
    THEN SubSeq(scrollback, 1, max_scrollback)
    ELSE scrollback

\* while self.scrollback.len() > self.max_scrollback { self.scrollback.remove(0) }
RECURSIVE Evict(_, _)
Evict(scrollback, max_scrollback) ==
    IF Len(scrollback) > max_scrollback
    THEN Evict(VecRemove(scrollback, 0), max_scrollback)
    ELSE scrollback

\* if scroll_bottom < screen.len(): screen[scroll_bottom] = a blank row
BlankRowAt(screen, y, cols) ==
    IF y < Len(screen) THEN [screen EXCEPT ![y + 1] = EmptyRow(cols)] ELSE screen

\* the push without the test scroll_top == 0
PushTopRowAlways(b) ==
    IF Len(b.screen) > 0
    THEN Evict(Append(b.scrollback, At(b.screen, 0)), b.max_scrollback)
    ELSE b.scrollback

\* if scroll_top == 0: push a clone of row 0 and evict down to max_scrollback
PushTopRow(b) ==
    IF b.scroll_top = 0 /\ Len(b.screen) > 0
    THEN Evict(Append(b.scrollback, At(b.screen, 0)), b.max_scrollback)
    ELSE b.scrollback

\* one iteration of scroll_up's outer loop
scroll_up_once(b) ==
    [b EXCEPT !.scrollback = PushTopRow(b),
              !.screen = BlankRowAt(ShiftUp(b.screen, b.scroll_top, b.scroll_bottom),
                                    b.scroll_bottom, b.size.cols)]

RECURSIVE scroll_up(_, _)
scroll_up(b, n) == IF n = 0 THEN b ELSE scroll_up(scroll_up_once(b), n - 1)

\* the shift loop of scroll_down: for y in (scroll_top + 1..=scroll_bottom).rev(),
\* screen[y] = screen[y - 1] when 0 < y < screen.len()
RECURSIVE ShiftDown(_, _, _)
ShiftDown(screen, y, top) ==
    IF y <= top THEN screen
    ELSE ShiftDown(IF y > 0 /\ y < Len(screen)
                   THEN [screen EXCEPT ![y + 1] = screen[y]]
                   ELSE screen,
                   y - 1, top)

\* one iteration of scroll_down that shifts from row 0, whatever scroll_top
scroll_down_once_from_row_0(b) ==
    [b EXCEPT !.screen = BlankRowAt(ShiftDown(b.screen, b.scroll_bottom, 0),
                                    0, b.size.cols)]

scroll_down_once(b) ==
    [b EXCEPT !.screen = BlankRowAt(ShiftDown(b.screen, b.scroll_bottom, b.scroll_top),
                                    b.scroll_top, b.size.cols)]

RECURSIVE scroll_down(_, _)
scroll_down(b, n) == IF n = 0 THEN b ELSE scroll_down(scroll_down_once(b), n - 1)

newline(b) ==
    IF b.cursor_y >= b.scroll_bottom
    THEN scroll_up(b, 1)
    ELSE [b EXCEPT !.cursor_y = @ + 1]

backspace(b) == IF b.cursor_x > 0 THEN [b EXCEPT !.cursor_x = @ - 1] ELSE b

tab(b) ==
    LET next_tab == ((b.cursor_x \div 8) + 1) * 8
    IN [b EXCEPT !.cursor_x = Min(next_tab, b.size.cols - 1)]

\* clear that erases cell by cell with Cell::clear, as the partial erases do
clear_cell_by_cell(b) ==
    [b EXCEPT !.screen = [y \in 1..Len(@) |-> [x \in 1..Len(@[y]) |-> CellClear(@[y][x])]]]

clear(b) == [b EXCEPT !.screen = create_empty_screen(b.size.cols, b.size.rows)]

\* row with the cells at 0-based columns lo..hi (inclusive) cleared
ClearCells(row, lo, hi) ==
    [x \in 1..Len(row) |-> IF lo <= x - 1 /\ x - 1 <= hi THEN CellClear(row[x]) ELSE row[x]]

ClearRow(row) == ClearCells(row, 0, Len(row) - 1)

clear_line(b) ==
    IF b.cursor_y < Len(b.screen)
    THEN [b EXCEPT !.screen[b.cursor_y + 1] = ClearRow(@)]
    ELSE b

clear_line_to_end(b) ==
    IF b.cursor_y < Len(b.screen)
    THEN [b EXCEPT !.screen[b.cursor_y + 1] = ClearCells(@, b.cursor_x, Len(@) - 1)]
    ELSE b

\* for x in 0..=cursor_x.min(row.len() - 1): row.len() >= 1 as cols >= 1
clear_line_to_start(b) ==
    IF b.cursor_y < Len(b.screen)
    THEN [b EXCEPT !.screen[b.cursor_y + 1] = ClearCells(@, 0, Min(b.cursor_x, Len(@) - 1))]
    ELSE b

\* the rows lo..hi (0-based, inclusive) of the screen cleared
ClearRows(screen, lo, hi) ==
    [y \in 1..Len(screen) |->
        IF lo <= y - 1 /\ y - 1 <= hi THEN ClearRow(screen[y]) ELSE screen[y]]

clear_to_end(b) ==
    [clear_line_to_end(b) EXCEPT !.screen = ClearRows(@, b.cursor_y + 1, b.size.rows - 1)]

clear_to_start(b) ==
    clear_line_to_start([b EXCEPT !.screen = ClearRows(@, 0, b.cursor_y - 1)])

\* insert_blank: count times, if cursor_x < row.len(): insert a default cell
\* at cursor_x and pop the last cell
RECURSIVE InsertBlankRow(_, _, _)
InsertBlankRow(row, x, count) ==
    IF count = 0 \/ x >= Len(row) THEN row
    ELSE InsertBlankRow(VecPop(VecInsert(row, x, CellDefault)), x, count - 1)

insert_blank(b, count) ==
    IF b.cursor_y < Len(b.screen)
    THEN [b EXCEPT !.screen[b.cursor_y + 1] = InsertBlankRow(@, b.cursor_x, count)]
    ELSE b

RECURSIVE DeleteCharsRow(_, _, _)
DeleteCharsRow(row, x, count) ==
    IF count = 0 \/ x >= Len(row) THEN row
    ELSE DeleteCharsRow(Append(VecRemove(row, x), CellDefault), x, count - 1)

\* delete_chars that removes at column 0, whatever cursor_x
delete_chars_from_column_0(b, count) ==
    IF b.cursor_y < Len(b.screen)
    THEN [b EXCEPT !.screen[b.cursor_y + 1] = DeleteCharsRow(@, 0, count)]
    ELSE b

delete_chars(b, count) ==
    IF b.cursor_y < Len(b.screen)
    THEN [b EXCEPT !.screen[b.cursor_y + 1] = DeleteCharsRow(@, b.cursor_x, count)]
    ELSE b

\* one iteration of insert_lines, entered with cursor_y <= scroll_bottom:
\*   screen.remove(scroll_bottom)   -- panics when scroll_bottom >= len
\*   screen.insert(cursor_y, blank) -- panics when cursor_y > len
InsertLineInto(b, removed) ==
    IF b.cursor_y > Len(removed)
    THEN [b EXCEPT !.screen = removed, !.panicked = TRUE]
    ELSE [b EXCEPT !.screen = VecInsert(removed, b.cursor_y, EmptyRow(b.size.cols))]

insert_lines_once(b) ==
    IF b.cursor_y <= b.scroll_bottom
    THEN IF b.scroll_bottom >= Len(b.screen)
         THEN [b EXCEPT !.panicked = TRUE]
         ELSE InsertLineInto(b, VecRemove(b.screen, b.scroll_bottom))
    ELSE b

RECURSIVE insert_lines(_, _)
insert_lines(b, count) ==
    IF count = 0 \/ b.panicked THEN b
    ELSE insert_lines(insert_lines_once(b), count - 1)

\* one iteration of delete_lines, entered with cursor_y <= scroll_bottom:
\*   screen.remove(cursor_y)             -- panics when cursor_y >= len
\*   screen.insert(scroll_bottom, blank) -- panics when scroll_bottom > len
DeleteLineFrom(b, removed) ==
    IF b.scroll_bottom > Len(removed)
    THEN [b EXCEPT !.screen = removed, !.panicked = TRUE]
    ELSE [b EXCEPT !.screen = VecInsert(removed, b.scroll_bottom, EmptyRow(b.size.cols))]

delete_lines_once(b) ==
    IF b.cursor_y <= b.scroll_bottom
    THEN IF b.cursor_y >= Len(b.screen)
         THEN [b EXCEPT !.panicked = TRUE]
         ELSE DeleteLineFrom(b, VecRemove(b.screen, b.cursor_y))
    ELSE b

RECURSIVE delete_lines(_, _)
delete_lines(b, count) ==
    IF count = 0 \/ b.panicked THEN b
    ELSE delete_lines(delete_lines_once(b), count - 1)

\* erase_chars that clears to the end of the row, whatever the count
erase_chars_to_end(b, count) ==
    IF b.cursor_y < Len(b.screen) /\ count > 0
    THEN [b EXCEPT !.screen[b.cursor_y + 1] = ClearCells(@, b.cursor_x, Len(@) - 1)]
    ELSE b

\* erase_chars: for i in 0..count, if cursor_x + i < row.len(): clear that cell
erase_chars(b, count) ==
    IF b.cursor_y < Len(b.screen) /\ count > 0
    THEN [b EXCEPT !.screen[b.cursor_y + 1] = ClearCells(@, b.cursor_x, b.cursor_x + count - 1)]
    ELSE b

\* save_cursor that stores the column only
save_cursor_column_only(b) == [b EXCEPT !.saved_cursor_x = b.cursor_x]

save_cursor(b) == [b EXCEPT !.saved_cursor_x = b.cursor_x, !.saved_cursor_y = b.cursor_y]

restore_cursor(b) == [b EXCEPT !.cursor_x = b.saved_cursor_x, !.cursor_y = b.saved_cursor_y]

\* set_scroll_region that takes bottom as given, without .max(scroll_top)
set_scroll_region_unordered(b, top, bottom) ==
    [b EXCEPT !.scroll_top = Min(top, b.size.rows - 1),
              !.scroll_bottom = Min(bottom, b.size.rows - 1)]

set_scroll_region(b, top, bottom) ==
    LET max_row == b.size.rows - 1
        new_top == Min(top, max_row)
    IN [b EXCEPT !.scroll_top = new_top,
                 !.scroll_bottom = Max(Min(bottom, max_row), new_top)]

reset_scroll_region(b) == [b EXCEPT !.scroll_top = 0, !.scroll_bottom = b.size.rows - 1]

\* switch_to_alternate without the test alternate_screen.is_none()
switch_to_alternate_unguarded(b) ==
    [clear([b EXCEPT !.alternate_screen = Some(b.screen),
                     !.alternate_cursor = Some(<<b.cursor_x, b.cursor_y>>)])
        EXCEPT !.cursor_x = 0, !.cursor_y = 0]

switch_to_alternate(b) ==
    IF b.alternate_screen.none
    THEN [clear([b EXCEPT !.alternate_screen = Some(b.screen),
                          !.alternate_cursor = Some(<<b.cursor_x, b.cursor_y>>)])
            EXCEPT !.cursor_x = 0, !.cursor_y = 0]
    ELSE b

\* switch_to_main that puts the grid back and leaves the cursor where it is
switch_to_main_keep_cursor(b) ==
    IF ~b.alternate_screen.none
    THEN [b EXCEPT !.screen = b.alternate_screen.val,
                   !.alternate_screen = None,
                   !.alternate_cursor = None]
    ELSE b

\* alternate_screen.take(), and alternate_cursor.take() only inside
switch_to_main(b) ==
    IF ~b.alternate_screen.none
    THEN IF ~b.alternate_cursor.none
         THEN [b EXCEPT !.screen = b.alternate_screen.val,
                        !.alternate_screen = None,
                        !.cursor_x = b.alternate_cursor.val[1],
                        !.cursor_y = b.alternate_cursor.val[2],
                        !.alternate_cursor = None]
         ELSE [b EXCEPT !.screen = b.alternate_screen.val, !.alternate_screen = None]
    ELSE b

\* set_fg that also recolours the cell under the cursor
set_fg_recolouring(b, color) ==
    IF b.cursor_y < Len(b.screen) /\ b.cursor_x < Len(b.screen[b.cursor_y + 1])
    THEN [b EXCEPT !.current_fg = color,
                   !.screen[b.cursor_y + 1][b.cursor_x + 1].fg = color]
    ELSE [b EXCEPT !.current_fg = color]

set_fg(b, color) == [b EXCEPT !.current_fg = color]
set_bg(b, color) == [b EXCEPT !.current_bg = color]
set_attr(b, attr) == [b EXCEPT !.current_attrs = attr]

\* reset_attrs that leaves the colours of the pen as they are
reset_attrs_keep_colors(b) ==
    [b EXCEPT !.current_attrs = CellAttributesDefault]

reset_attrs(b) ==
    [b EXCEPT !.current_attrs = CellAttributesDefault,
              !.current_fg = WHITE,
              !.current_bg = BLACK]

\* resize that starts from an empty grid and copies nothing over
resize_without_copy(b, cols, rows) ==
    [b EXCEPT !.screen = create_empty_screen(cols, rows),
              !.size = [cols |-> cols, rows |-> rows],
              !.cursor_x = Min(b.cursor_x, SatSub(cols, 1)),
              !.cursor_y = Min(b.cursor_y, SatSub(rows, 1)),
              !.scroll_bottom = rows - 1,
              !.scroll_top = IF b.scroll_top >= rows THEN 0 ELSE b.scroll_top]

\* resize, for cols >= 1 and rows >= 1
resize(b, cols, rows) ==
       [b EXCEPT !.screen =
                    [y \in 1..rows |->
                        [x \in 1..cols |->
                            IF y <= Len(b.screen) /\ x <= Len(b.screen[y])
                            THEN b.screen[y][x] ELSE CellDefault]],
                 !.size = [cols |-> cols, rows |-> rows],
                 !.cursor_x = Min(b.cursor_x, SatSub(cols, 1)),
                 !.cursor_y = Min(b.cursor_y, SatSub(rows, 1)),
                 !.scroll_bottom = rows - 1,
                 !.scroll_top = IF b.scroll_top >= rows THEN 0 ELSE b.scroll_top]

set_auto_wrap(b, enabled) == [b EXCEPT !.auto_wrap = enabled]
set_insert_mode(b, enabled) == [b EXCEPT !.insert_mode = enabled]

\* set_origin_mode that sets the flag and leaves the cursor
set_origin_mode_flag_only(b, enabled) == [b EXCEPT !.origin_mode = enabled]

set_origin_mode(b, enabled) ==
    IF enabled
    THEN set_cursor([b EXCEPT !.origin_mode = TRUE], 0, 0)
    ELSE [b EXCEPT !.origin_mode = FALSE]

\* write_char, printable path: if cursor_x >= cols, wrap (auto_wrap) or clamp
WrapOrClamp(b) ==
    IF b.cursor_x >= b.size.cols
    THEN IF b.auto_wrap
         THEN newline([b EXCEPT !.cursor_x = 0])
         ELSE [b EXCEPT !.cursor_x = b.size.cols - 1]
    ELSE b

\* write_char, printable path: if insert_mode { insert_blank(1) }
InsertIfMode(b) == IF b.insert_mode THEN insert_blank(b, 1) ELSE b

\* the cell write that takes the character and leaves the pen out
PutCellWithoutPen(b, c) ==
    IF b.cursor_y < Len(b.screen) /\ b.cursor_x < Len(b.screen[b.cursor_y + 1])
    THEN [b EXCEPT !.screen[b.cursor_y + 1][b.cursor_x + 1].character = c,
                   !.cursor_x = @ + 1]
    ELSE [b EXCEPT !.cursor_x = @ + 1]

\* write_char, printable path: the cell under the cursor, when there is one,
\* takes the character and the pen; then cursor_x += 1
PutCell(b, c) ==
    IF b.cursor_y < Len(b.screen) /\ b.cursor_x < Len(b.screen[b.cursor_y + 1])
    THEN [b EXCEPT !.screen[b.cursor_y + 1][b.cursor_x + 1] =
                        [character |-> c, fg |-> b.current_fg,
                         bg |-> b.current_bg, attrs |-> b.current_attrs],
                   !.cursor_x = @ + 1]
    ELSE [b EXCEPT !.cursor_x = @ + 1]

\* write_char: the control characters, then the printable path
write_char(b, c) ==
    IF c = 10 THEN newline(b)
    ELSE IF c = 13 THEN [b EXCEPT !.cursor_x = 0]
    ELSE IF c = 8 THEN backspace(b)
    ELSE IF c = 9 THEN tab(b)
    ELSE IF c = 7 THEN b
    ELSE PutCell(InsertIfMode(WrapOrClamp(b)), c)

RECURSIVE write_str(_, _)
write_str(b, s) == IF s = <<>> THEN b ELSE write_str(write_char(b, Head(s)), Tail(s))

\* ------------------------------------------- parser.rs: colour tables

ANSI_COLORS ==
    <<rgb(0, 0, 0), rgb(205, 49, 49), rgb(13, 188, 121), rgb(229, 229, 16),
      rgb(36, 114, 200), rgb(188, 63, 188), rgb(17, 168, 205), rgb(229, 229, 229)>>

ANSI_BRIGHT_COLORS ==
    <<rgb(102, 102, 102), rgb(241, 76, 76), rgb(35, 209, 139), rgb(245, 245, 67),
      rgb(59, 142, 234), rgb(214, 112, 214), rgb(41, 184, 219), rgb(255, 255, 255)>>

\* `v as u8`
AsU8(v) == v % 256

\* color_from_256 with a grey ramp in steps of 11, which leaves the u8
color_from_256_steps_of_11(idx) ==
    IF idx <= 7 THEN At(ANSI_COLORS, idx)
    ELSE IF idx <= 15 THEN At(ANSI_BRIGHT_COLORS, idx - 8)
    ELSE IF idx <= 231 THEN
        LET i == idx - 16
        IN rgb(AsU8((i \div 36) * 51), AsU8(((i \div 6) % 6) * 51), AsU8((i % 6) * 51))
    ELSE IF idx <= 255 THEN
        LET gray == AsU8((idx - 232) * 11 + 8)
        IN rgb(gray, gray, gray)
    ELSE WHITE

color_from_256(idx) ==
    IF idx <= 7 THEN At(ANSI_COLORS, idx)
    ELSE IF idx <= 15 THEN At(ANSI_BRIGHT_COLORS, idx - 8)
    ELSE IF idx <= 231 THEN
        LET i == idx - 16
        IN rgb(AsU8((i \div 36) * 51), AsU8(((i \div 6) % 6) * 51), AsU8((i % 6) * 51))
    ELSE IF idx <= 255 THEN
        LET gray == AsU8((idx - 232) * 10 + 8)
        IN rgb(gray, gray, gray)
    ELSE WHITE

\* ------------------------------------------ parser.rs: TerminalPerformer

\* params.get(i).copied().unwrap_or(default), i 0-based
param(params, i, default) == IF i < Len(params) THEN At(params, i) ELSE default

\* the group at params[i] with the 256-colour form skipping one slot only
ExtendedColorSkipsOne(params, i) ==
    IF i + 2 < Len(params) /\ At(params, i + 1) = 5
    THEN <<Some(color_from_256(At(params, i + 2))), 1>>
    ELSE IF i + 4 < Len(params) /\ At(params, i + 1) = 2
    THEN <<Some(rgb(AsU8(At(params, i + 2)), AsU8(At(params, i + 3)), AsU8(At(params, i + 4)))), 4>>
    ELSE <<None, 0>>

\* the extended colour group at params[i] (38 or 48): <<colour or None, slots skipped>>
ExtendedColor(params, i) ==
    IF i + 2 < Len(params) /\ At(params, i + 1) = 5
    THEN <<Some(color_from_256(At(params, i + 2))), 2>>
    ELSE IF i + 4 < Len(params) /\ At(params, i + 1) = 2
    THEN <<Some(rgb(AsU8(At(params, i + 2)), AsU8(At(params, i + 3)), AsU8(At(params, i + 4)))), 4>>
    ELSE <<None, 0>>

\* one code of handle_sgr's match, for the codes that take no further slot
SgrCode(b, code) ==
    IF code = 0 THEN reset_attrs(b)
    ELSE IF code = 1 THEN set_attr(b, [b.current_attrs EXCEPT !.bold = TRUE])
    ELSE IF code = 2 THEN set_attr(b, [b.current_attrs EXCEPT !.dim = TRUE])
    ELSE IF code = 3 THEN set_attr(b, [b.current_attrs EXCEPT !.italic = TRUE])
    ELSE IF code = 4 THEN set_attr(b, [b.current_attrs EXCEPT !.underline = TRUE])
    ELSE IF code = 5 \/ code = 6 THEN set_attr(b, [b.current_attrs EXCEPT !.blink = TRUE])
    ELSE IF code = 7 THEN set_attr(b, [b.current_attrs EXCEPT !.inverse = TRUE])
    ELSE IF code = 8 THEN set_attr(b, [b.current_attrs EXCEPT !.hidden = TRUE])
    ELSE IF code = 9 THEN set_attr(b, [b.current_attrs EXCEPT !.strikethrough = TRUE])
    ELSE IF code = 21 \/ code = 22
         THEN set_attr(b, [b.current_attrs EXCEPT !.bold = FALSE, !.dim = FALSE])
    ELSE IF code = 23 THEN set_attr(b, [b.current_attrs EXCEPT !.italic = FALSE])
    ELSE IF code = 24 THEN set_attr(b, [b.current_attrs EXCEPT !.underline = FALSE])
    ELSE IF code = 25 THEN set_attr(b, [b.current_attrs EXCEPT !.blink = FALSE])
    ELSE IF code = 27 THEN set_attr(b, [b.current_attrs EXCEPT !.inverse = FALSE])
    ELSE IF code = 28 THEN set_attr(b, [b.current_attrs EXCEPT !.hidden = FALSE])
    ELSE IF code = 29 THEN set_attr(b, [b.current_attrs EXCEPT !.strikethrough = FALSE])
    ELSE IF 30 <= code /\ code <= 37 THEN set_fg(b, At(ANSI_COLORS, code - 30))
    ELSE IF code = 39 THEN set_fg(b, WHITE)
    ELSE IF 40 <= code /\ code <= 47 THEN set_bg(b, At(ANSI_COLORS, code - 40))
    ELSE IF code = 49 THEN set_bg(b, BLACK)
    ELSE IF 90 <= code /\ code <= 97 THEN set_fg(b, At(ANSI_BRIGHT_COLORS, code - 90))
    ELSE IF 100 <= code /\ code <= 107 THEN set_bg(b, At(ANSI_BRIGHT_COLORS, code - 100))
    ELSE b

\* codes 38 and 48: the colour of a complete group goes to fg or bg
SgrExtended(b, code, ext) ==
    IF ext[1].none THEN b
    ELSE IF code = 38 THEN set_fg(b, ext[1].val)
    ELSE set_bg(b, ext[1].val)

\* one turn of handle_sgr's while loop at index i: <<buffer, next index>>
SgrStep(b, params, i, code, ext) ==
    IF code = 38 \/ code = 48
    THEN <<SgrExtended(b, code, ext), i + ext[2] + 1>>
    ELSE <<SgrCode(b, code), i + 1>>

RECURSIVE SgrLoop(_, _)
SgrLoop(st, params) ==
    IF st[2] >= Len(params) THEN st[1]
    ELSE SgrLoop(SgrStep(st[1], params, st[2], At(params, st[2]),
                         ExtendedColor(params, st[2])),
                 params)

handle_sgr(b, params) ==
    IF params = <<>> THEN reset_attrs(b) ELSE SgrLoop(<<b, 0>>, params)

QUESTION_MARK == 63

\* one parameter of handle_mode
ModeParam(b, is_dec, p, enable) ==
    IF is_dec
    THEN IF p = 6 THEN set_origin_mode(b, enable)
         ELSE IF p = 7 THEN set_auto_wrap(b, enable)
         ELSE IF p = 47 \/ p = 1047
              THEN IF enable THEN switch_to_alternate(b) ELSE switch_to_main(b)
         ELSE IF p = 1049
              THEN IF enable
                   THEN clear(switch_to_alternate(save_cursor(b)))
                   ELSE restore_cursor(switch_to_main(b))
         ELSE b
    ELSE IF p = 4 THEN set_insert_mode(b, enable)
         ELSE b

RECURSIVE ModeLoop(_, _, _, _)
ModeLoop(b, is_dec, params, enable) ==
    IF params = <<>> THEN b
    ELSE ModeLoop(ModeParam(b, is_dec, Head(params), enable), is_dec, Tail(params), enable)

\* handle_mode that takes every sequence as DEC-private
handle_mode_always_dec(b, intermediates, params, enable) ==
    ModeLoop(b, TRUE, params, enable)

handle_mode(b, intermediates, params, enable) ==
    ModeLoop(b, \E k \in 1..Len(intermediates) : intermediates[k] = QUESTION_MARK,
             params, enable)

\* Perform::print
print(b, c) == write_char(b, c)

\* Perform::execute
execute(b, byte) ==
    IF byte = 8 THEN (IF b.cursor_x > 0 THEN move_cursor(b, -1, 0) ELSE b)
    ELSE IF byte = 9 \/ byte = 13 THEN write_char(b, byte)     \* '\t', '\r'
    ELSE IF byte = 10 \/ byte = 11 \/ byte = 12 THEN write_char(b, 10)  \* '\n'
    ELSE b

\* the character of a final byte, as in the match arms of csi_dispatch
Ch(s) ==
    CASE s = "A" -> 65 [] s = "B" -> 66 [] s = "C" -> 67 [] s = "D" -> 68
      [] s = "E" -> 69 [] s = "F" -> 70 [] s = "G" -> 71 [] s = "H" -> 72
      [] s = "J" -> 74 [] s = "K" -> 75 [] s = "L" -> 76 [] s = "M" -> 77
      [] s = "P" -> 80 [] s = "S" -> 83 [] s = "T" -> 84 [] s = "X" -> 88
      [] s = "@" -> 64 [] s = "d" -> 100 [] s = "f" -> 102 [] s = "h" -> 104
      [] s = "l" -> 108 [] s = "m" -> 109 [] s = "r" -> 114 [] s = "s" -> 115
      [] s = "u" -> 117 [] s = "c" -> 99 [] s = "7" -> 55 [] s = "8" -> 56
      [] s = "[" -> 91 [] s = "]" -> 93 [] s = "?" -> 63 [] s = ";" -> 59
      [] s = "0" -> 48 [] s = "1" -> 49 [] s = "2" -> 50 [] s = "3" -> 51
      [] s = "4" -> 52 [] s = "5" -> 53 [] s = "6" -> 54 [] s = "9" -> 57
      [] s = "a" -> 97 [] s = "b" -> 98 [] s = "\\" -> 92

\* Perform::csi_dispatch; params are the first sub-parameters (p[0]); the
\* final byte c is matched by its code
csi_dispatch(b, params, intermediates, c) ==
    IF c = 65 (* A *) THEN move_cursor(b, 0, -Max(param(params, 0, 1), 1))
    ELSE IF c = 66 (* B *) THEN move_cursor(b, 0, Max(param(params, 0, 1), 1))
    ELSE IF c = 67 (* C *) THEN move_cursor(b, Max(param(params, 0, 1), 1), 0)
    ELSE IF c = 68 (* D *) THEN move_cursor(b, -Max(param(params, 0, 1), 1), 0)
    ELSE IF c = 69 (* E *) THEN
        LET b1 == move_cursor(b, 0, Max(param(params, 0, 1), 1))
        IN set_cursor(b1, 0, b1.cursor_y)
    ELSE IF c = 70 (* F *) THEN
        LET b1 == move_cursor(b, 0, -Max(param(params, 0, 1), 1))
        IN set_cursor(b1, 0, b1.cursor_y)
    ELSE IF c = 71 (* G *) THEN set_cursor(b, SatSub(param(params, 0, 1), 1), b.cursor_y)
    ELSE IF c = 72 (* H *) \/ c = 102 (* f *) THEN
        set_cursor(b, SatSub(param(params, 1, 1), 1), SatSub(param(params, 0, 1), 1))
    ELSE IF c = 74 (* J *) THEN
        LET p == param(params, 0, 0)
        IN IF p = 0 THEN clear_to_end(b)
           ELSE IF p = 1 THEN clear_to_start(b)
           ELSE IF p = 2 \/ p = 3 THEN clear(b)
           ELSE b
    ELSE IF c = 75 (* K *) THEN
        LET p == param(params, 0, 0)
        IN IF p = 0 THEN clear_line_to_end(b)
           ELSE IF p = 1 THEN clear_line_to_start(b)
           ELSE IF p = 2 THEN clear_line(b)
           ELSE b
    ELSE IF c = 76 (* L *) THEN insert_lines(b, param(params, 0, 1))
    ELSE IF c = 77 (* M *) THEN delete_lines(b, param(params, 0, 1))
    ELSE IF c = 80 (* P *) THEN delete_chars(b, param(params, 0, 1))
    ELSE IF c = 83 (* S *) THEN scroll_up(b, param(params, 0, 1))
    ELSE IF c = 84 (* T *) THEN scroll_down(b, param(params, 0, 1))
    ELSE IF c = 88 (* X *) THEN erase_chars(b, param(params, 0, 1))
    ELSE IF c = 64 (* @ *) THEN insert_blank(b, param(params, 0, 1))
    ELSE IF c = 100 (* d *) THEN set_cursor(b, b.cursor_x, SatSub(param(params, 0, 1), 1))
    ELSE IF c = 109 (* m *) THEN handle_sgr(b, params)
    ELSE IF c = 114 (* r *) THEN
        set_scroll_region(b, SatSub(param(params, 0, 1), 1),
                          SatSub(param(params, 1, b.size.rows), 1))
    ELSE IF c = 115 (* s *) THEN save_cursor(b)
    ELSE IF c = 117 (* u *) THEN restore_cursor(b)
    ELSE IF c = 104 (* h *) THEN handle_mode(b, intermediates, params, TRUE)
    ELSE IF c = 108 (* l *) THEN handle_mode(b, intermediates, params, FALSE)
    ELSE b

\* Perform::esc_dispatch
esc_dispatch(b, intermediates, byte) ==
    IF intermediates # <<>> THEN b
    ELSE IF byte = 55 (* 7 *) THEN save_cursor(b)
    ELSE IF byte = 56 (* 8 *) THEN restore_cursor(b)
    ELSE IF byte = 68 (* D *) THEN scroll_up(b, 1)
    ELSE IF byte = 77 (* M *) THEN scroll_down(b, 1)
    ELSE IF byte = 99 (* c *) THEN set_cursor(reset_attrs(clear(b)), 0, 0)
    ELSE b

\* ------------------------------------------------ vte::Parser (7-bit)
\* The state machine TerminalParser::process drives, one byte per advance.
\* The OSC payload the machine collects is not kept: osc_dispatch, hook, put
\* and unhook of TerminalPerformer are empty.

MAX_INTERMEDIATES == 2
MAX_PARAMS == 32

ESC == 27

ParserNew ==
    [state |-> "Ground",
     intermediates |-> <<>>,
     ignoring |-> FALSE,
     param |-> 0,       \* the parameter being collected (u16, saturating)
     params |-> <<>>,   \* the finished parameters, each with its sub-parameters
     sub |-> <<>>]      \* the sub-parameters collected for the unfinished parameter

\* C0 controls that a state executes or ignores in place
IsC0(byte) == byte <= 23 \/ byte = 25 \/ (28 <= byte /\ byte <= 31)

InRange(byte, lo, hi) == lo <= byte /\ byte <= hi

\* Params::len: the parameters and sub-parameters stored
RECURSIVE ParamsLen(_)
ParamsLen(params) ==
    IF params = <<>> THEN 0 ELSE Len(Head(params)) + ParamsLen(Tail(params))

ParamsIsFull(p) == ParamsLen(p.params) + Len(p.sub) = MAX_PARAMS

\* Params::push
ParamsPush(p) == [p EXCEPT !.params = Append(@, Append(p.sub, p.param)), !.sub = <<>>]

\* Action::Clear
ActClear(p) ==
    [p EXCEPT !.intermediates = <<>>, !.ignoring = FALSE, !.param = 0,
              !.params = <<>>, !.sub = <<>>]

\* Action::Collect
ActCollect(p, byte) ==
    IF Len(p.intermediates) = MAX_INTERMEDIATES
    THEN [p EXCEPT !.ignoring = TRUE]
    ELSE [p EXCEPT !.intermediates = Append(@, byte)]

\* Action::Param
ActParam(p, byte) ==
    IF ParamsIsFull(p) THEN [p EXCEPT !.ignoring = TRUE]
    ELSE IF byte = 59 THEN [ParamsPush(p) EXCEPT !.param = 0]
    ELSE IF byte = 58 THEN [p EXCEPT !.sub = Append(@, p.param), !.param = 0]
    ELSE [p EXCEPT !.param = Min(Min(@ * 10, U16_MAX) + (byte - 48), U16_MAX)]

\* the parameters handed to a dispatch: the unfinished one is pushed first
ActDispatchPush(p) ==
    IF ParamsIsFull(p) THEN [p EXCEPT !.ignoring = TRUE] ELSE ParamsPush(p)

\* params.iter().map(|p| p[0]).collect()
FirstSubparams(params) == [i \in 1..Len(params) |-> params[i][1]]

\* The transition of the table for (state, byte): <<next state, action>>;
\* next state "Anywhere" keeps the state.
Transition(state, byte) ==
    IF byte = 24 \/ byte = 26 THEN <<"Ground", "Execute">>
    ELSE IF byte = ESC THEN <<"Escape", "None">>
    ELSE IF state = "Ground" THEN
        IF IsC0(byte) THEN <<"Anywhere", "Execute">> ELSE <<"Anywhere", "Print">>
    ELSE IF state = "Escape" THEN
        IF IsC0(byte) THEN <<"Anywhere", "Execute">>
        ELSE IF byte = 127 THEN <<"Anywhere", "Ignore">>
        ELSE IF InRange(byte, 32, 47) THEN <<"EscapeIntermediate", "Collect">>
        ELSE IF byte = 91 THEN <<"CsiEntry", "None">>
        ELSE IF byte = 93 THEN <<"OscString", "None">>
        ELSE IF byte = 80 THEN <<"DcsEntry", "None">>
        ELSE IF byte = 88 \/ byte = 94 \/ byte = 95 THEN <<"SosPmApcString", "None">>
        ELSE <<"Ground", "EscDispatch">>
    ELSE IF state = "EscapeIntermediate" THEN
        IF IsC0(byte) THEN <<"Anywhere", "Execute">>
        ELSE IF byte = 127 THEN <<"Anywhere", "Ignore">>
        ELSE IF InRange(byte, 32, 47) THEN <<"Anywhere", "Collect">>
        ELSE <<"Ground", "EscDispatch">>
    ELSE IF state = "CsiEntry" THEN
        IF IsC0(byte) THEN <<"Anywhere", "Execute">>
        ELSE IF byte = 127 THEN <<"Anywhere", "Ignore">>
        ELSE IF InRange(byte, 32, 47) THEN <<"CsiIntermediate", "Collect">>
        ELSE IF InRange(byte, 48, 59) THEN <<"CsiParam", "Param">>
        ELSE IF InRange(byte, 60, 63) THEN <<"CsiParam", "Collect">>
        ELSE <<"Ground", "CsiDispatch">>
    ELSE IF state = "CsiParam" THEN
        IF IsC0(byte) THEN <<"Anywhere", "Execute">>
        ELSE IF byte = 127 THEN <<"Anywhere", "Ignore">>
        ELSE IF InRange(byte, 32, 47) THEN <<"CsiIntermediate", "Collect">>
        ELSE IF InRange(byte, 48, 59) THEN <<"Anywhere", "Param">>
        ELSE IF InRange(byte, 60, 63) THEN <<"CsiIgnore", "None">>
        ELSE <<"Ground", "CsiDispatch">>
    ELSE IF state = "CsiIntermediate" THEN
        IF IsC0(byte) THEN <<"Anywhere", "Execute">>
        ELSE IF byte = 127 THEN <<"Anywhere", "Ignore">>
        ELSE IF InRange(byte, 32, 47) THEN <<"Anywhere", "Collect">>
        ELSE IF InRange(byte, 48, 63) THEN <<"CsiIgnore", "None">>
        ELSE <<"Ground", "CsiDispatch">>
    ELSE IF state = "CsiIgnore" THEN
        IF IsC0(byte) THEN <<"Anywhere", "Execute">>
        ELSE IF InRange(byte, 64, 126) THEN <<"Ground", "None">>
        ELSE <<"Anywhere", "Ignore">>
    ELSE IF state = "DcsEntry" THEN
        IF IsC0(byte) \/ byte = 127 THEN <<"Anywhere", "Ignore">>
        ELSE IF InRange(byte, 32, 47) THEN <<"DcsIntermediate", "Collect">>
        ELSE IF byte = 58 THEN <<"DcsIgnore", "None">>
        ELSE IF InRange(byte, 48, 59) THEN <<"DcsParam", "Param">>
        ELSE IF InRange(byte, 60, 63) THEN <<"DcsParam", "Collect">>
        ELSE <<"DcsPassthrough", "None">>
    ELSE IF state = "DcsParam" THEN
        IF IsC0(byte) \/ byte = 127 THEN <<"Anywhere", "Ignore">>
        ELSE IF InRange(byte, 32, 47) THEN <<"DcsIntermediate", "Collect">>
        ELSE IF byte = 58 \/ InRange(byte, 60, 63) THEN <<"DcsIgnore", "None">>
        ELSE IF InRange(byte, 48, 59) THEN <<"Anywhere", "Param">>
        ELSE <<"DcsPassthrough", "None">>
    ELSE IF state = "DcsIntermediate" THEN
        IF IsC0(byte) \/ byte = 127 THEN <<"Anywhere", "Ignore">>
        ELSE IF InRange(byte, 32, 47) THEN <<"Anywhere", "Collect">>
        ELSE IF InRange(byte, 48, 63) THEN <<"DcsIgnore", "None">>
        ELSE <<"DcsPassthrough", "None">>
    ELSE IF state = "DcsPassthrough" THEN
        IF byte = 127 THEN <<"Anywhere", "Ignore">> ELSE <<"Anywhere", "Put">>
    ELSE IF state = "OscString" THEN
        IF byte = 7 THEN <<"Ground", "None">>
        ELSE IF IsC0(byte) THEN <<"Anywhere", "Ignore">>
        ELSE <<"Anywhere", "OscPut">>
    ELSE \* DcsIgnore, SosPmApcString
        <<"Anywhere", "Ignore">>

\* The terminal as TerminalParser holds it
TerminalParserNew(cols, rows, scrollback) ==
    [buffer |-> TerminalBufferNew(cols, rows, scrollback), parser |-> ParserNew]

\* perform_action: the action's effect on the parser and, through the
\* performer's callbacks, on the buffer
PerformAction(t, action, byte) ==
    IF action = "Print" THEN [t EXCEPT !.buffer = print(@, byte)]
    ELSE IF action = "Execute" THEN [t EXCEPT !.buffer = execute(@, byte)]
    ELSE IF action = "Collect" THEN [t EXCEPT !.parser = ActCollect(@, byte)]
    ELSE IF action = "Param" THEN [t EXCEPT !.parser = ActParam(@, byte)]
    ELSE IF action = "EscDispatch"
         THEN [t EXCEPT !.buffer = esc_dispatch(@, t.parser.intermediates, byte)]
    ELSE IF action = "CsiDispatch"
         THEN LET p == ActDispatchPush(t.parser)
              IN [buffer |-> csi_dispatch(t.buffer, FirstSubparams(p.params),
                                          p.intermediates, byte),
                  parser |-> p]
    ELSE t  \* None, Ignore, Put, OscPut

\* the entry action of the state entered: Clear, or Hook (which pushes the
\* unfinished parameter)
EnterState(p, state) ==
    [(IF state \in {"Escape", "CsiEntry", "DcsEntry"} THEN ActClear(p)
      ELSE IF state = "DcsPassthrough" THEN ActDispatchPush(p)
      ELSE p) EXCEPT !.state = state]

\* perform_state_change: the action of the transition tr, then the entry
\* action of the state entered
StateChange(t, tr, byte) ==
    IF tr[1] = "Anywhere"
    THEN PerformAction(t, tr[2], byte)
    ELSE [PerformAction(t, tr[2], byte) EXCEPT !.parser = EnterState(@, tr[1])]

\* Parser::advance for one byte
advance(t, byte) == StateChange(t, Transition(t.parser.state, byte), byte)

\* for byte in data { self.parser.advance(&mut performer, *byte) }: a panic
\* ends the call
RECURSIVE AdvanceAll(_, _)
AdvanceAll(t, data) ==
    IF data = <<>> \/ t.buffer.panicked THEN t
    ELSE AdvanceAll(advance(t, Head(data)), Tail(data))

\* process with a parser made anew by every call
process_fresh_parser(t, data) == AdvanceAll([t EXCEPT !.parser = ParserNew], data)

\* TerminalParser::process: self.parser lives across the calls
process(t, data) == AdvanceAll(t, data)

\* ------------------------------------------------------------ byte strings

Bytes(chars) == [i \in 1..Len(chars) |-> Ch(chars[i])]
\* ESC [ ... and ESC x
Csi(chars) == <<ESC, 91>> \o Bytes(chars)
Esc(char) == <<ESC, Ch(char)>>

LF == 10
CR == 13
BS == 8
BEL == 7

SET_1049 == Csi(<<"?", "1", "0", "4", "9", "h">>)
RESET_1049 == Csi(<<"?", "1", "0", "4", "9", "l">>)
SET_47 == Csi(<<"?", "4", "7", "h">>)
RESET_47 == Csi(<<"?", "4", "7", "l">>)
SET_ORIGIN == Csi(<<"?", "6", "h">>)
RESET_ORIGIN == Csi(<<"?", "6", "l">>)

\* ------------------------------------------------------- vt.rs: VtParser

\* VtCommand
VtPrint(c) == [tag |-> "Print", c |-> c]
CursorUp(n) == [tag |-> "CursorUp", n |-> n]
CursorDown(n) == [tag |-> "CursorDown", n |-> n]
CursorForward(n) == [tag |-> "CursorForward", n |-> n]
CursorBackward(n) == [tag |-> "CursorBackward", n |-> n]
CursorPosition(row, col) == [tag |-> "CursorPosition", row |-> row, col |-> col]
ClearScreen(n) == [tag |-> "ClearScreen", n |-> n]
ClearLine(n) == [tag |-> "ClearLine", n |-> n]
SetGraphicsMode(params) == [tag |-> "SetGraphicsMode", params |-> params]

VtParserNew == [state |-> "Normal", params |-> <<>>, current_param |-> <<>>]

IsDigit(byte) == 48 <= byte /\ byte <= 57

\* the number a non-empty string of digits stands for
RECURSIVE DigitsValue(_)
DigitsValue(s) ==
    IF s = <<>> THEN 0
    ELSE 10 * DigitsValue(SubSeq(s, 1, Len(s) - 1)) + (s[Len(s)] - 48)

\* current_param.parse::<u32>(): Err for the empty string, Ok for digits.
\* The strings of the model have at most MaxVtBody digits and are below 2^32.
ParseU32(s) == IF s = <<>> THEN None ELSE Some(DigitsValue(s))

\* params.get(i).copied().unwrap_or(default)
GetOr(params, i, default) == IF i < Len(params) THEN At(params, i) ELSE default

handle_csi_command(p, cmd) ==
    IF cmd = Ch("A") THEN Some(CursorUp(GetOr(p.params, 0, 1)))
    ELSE IF cmd = Ch("B") THEN Some(CursorDown(GetOr(p.params, 0, 1)))
    ELSE IF cmd = Ch("C") THEN Some(CursorForward(GetOr(p.params, 0, 1)))
    ELSE IF cmd = Ch("D") THEN Some(CursorBackward(GetOr(p.params, 0, 1)))
    ELSE IF cmd = Ch("H")
         THEN Some(CursorPosition(SatSub(GetOr(p.params, 0, 1), 1),
                                  SatSub(GetOr(p.params, 1, 1), 1)))
    ELSE IF cmd = Ch("J") THEN Some(ClearScreen(GetOr(p.params, 0, 0)))
    ELSE IF cmd = Ch("K") THEN Some(ClearLine(GetOr(p.params, 0, 0)))
    ELSE IF cmd = Ch("m") THEN Some(SetGraphicsMode(p.params))
    ELSE None

\* params after current_param is parsed and, if Ok, pushed
PushParsed(p) ==
    IF ParseU32(p.current_param).none THEN p.params
    ELSE Append(p.params, ParseU32(p.current_param).val)

\* the parser at the final byte of a CSI sequence, before handle_csi_command
CsiFinal(p) ==
    [p EXCEPT !.params = PushParsed(p), !.state = "Normal"]

\* the Escape state of parse with '[' leaving params as they are
parse_keep_params(p, byte) ==
    IF p.state = "Escape" /\ byte = Ch("[")
    THEN <<[p EXCEPT !.state = "Csi", !.current_param = <<>>], None>>
    ELSE IF p.state = "Normal"
    THEN IF byte = ESC THEN <<[p EXCEPT !.state = "Escape"], None>>
         ELSE <<p, Some(VtPrint(byte))>>
    ELSE IF p.state = "Escape"
    THEN IF byte = Ch("]") THEN <<[p EXCEPT !.state = "OscString"], None>>
         ELSE <<[p EXCEPT !.state = "Normal"], None>>
    ELSE IF p.state = "Csi"
    THEN IF IsDigit(byte)
         THEN <<[p EXCEPT !.current_param = Append(p.current_param, byte)], None>>
         ELSE IF byte = Ch(";")
         THEN <<[p EXCEPT !.params = PushParsed(p), !.current_param = <<>>], None>>
         ELSE <<CsiFinal(p), handle_csi_command(CsiFinal(p), byte)>>
    ELSE IF byte = BEL THEN <<[p EXCEPT !.state = "Normal"], None>>
         ELSE <<p, None>>

\* VtParser::parse(byte): <<the parser afterwards, the value returned>>
parse(p, byte) ==
    IF p.state = "Normal"
    THEN IF byte = ESC THEN <<[p EXCEPT !.state = "Escape"], None>>
         ELSE <<p, Some(VtPrint(byte))>>
    ELSE IF p.state = "Escape"
    THEN IF byte = Ch("[")
         THEN <<[p EXCEPT !.state = "Csi", !.params = <<>>, !.current_param = <<>>], None>>
         ELSE IF byte = Ch("]") THEN <<[p EXCEPT !.state = "OscString"], None>>
         ELSE <<[p EXCEPT !.state = "Normal"], None>>
    ELSE IF p.state = "Csi"
    THEN IF IsDigit(byte)
         THEN <<[p EXCEPT !.current_param = Append(p.current_param, byte)], None>>
         ELSE IF byte = Ch(";")
         THEN <<[p EXCEPT !.params = PushParsed(p), !.current_param = <<>>], None>>
         ELSE <<CsiFinal(p), handle_csi_command(CsiFinal(p), byte)>>
    ELSE IF byte = BEL THEN <<[p EXCEPT !.state = "Normal"], None>>
         ELSE <<p, None>>

\* --------------------------------------------------- mod.rs: Terminal facade

Terminal == [buffer |-> buffer, parser |-> parser]

\* the grid and the cursor of a buffer
View(b) == [screen |-> b.screen, cursor |-> cursor_position(b)]

\* history: the primary view is recorded by the call that enters the
\* alternate screen and dropped by the call that leaves it
SnapAfter(b) ==
    IF buffer.alternate_screen.none /\ ~b.alternate_screen.none THEN Some(View(buffer))
    ELSE IF b.alternate_screen.none THEN None
    ELSE snap

\* history: what the call about to be made finds
Before ==
    [scrollback_len |-> scrollback_len(buffer),
     alternate |-> ~buffer.alternate_screen.none]

\* the terminal becomes t
Becomes(t) ==
    /\ buffer' = t.buffer
    /\ parser' = t.parser
    /\ snap' = SnapAfter(t.buffer)
    /\ UNCHANGED <<vt, vt_seq, emulator>>

\* Terminal::process(data)
Process(data) ==
    /\ ~buffer.panicked
    /\ Becomes(process(Terminal, data))
    /\ last' = [op |-> "process", data |-> data, before |-> Before]

\* Terminal::resize(cols, rows)
Resize(cols, rows) ==
    /\ ~buffer.panicked
    /\ buffer' = resize(buffer, cols, rows)
    /\ last' = [op |-> "resize", data |-> <<cols, rows>>, before |-> Before]
    /\ UNCHANGED <<parser, snap, vt, vt_seq, emulator>>

\* Terminal::write(text)
Write(text) ==
    /\ ~buffer.panicked
    /\ buffer' = write_str(buffer, text)
    /\ last' = [op |-> "write", data |-> text, before |-> Before]
    /\ UNCHANGED <<parser, snap, vt, vt_seq, emulator>>

\* Terminal::clear()
Clear ==
    /\ ~buffer.panicked
    /\ buffer' = clear(buffer)
    /\ last' = [op |-> "clear", data |-> <<>>, before |-> Before]
    /\ UNCHANGED <<parser, snap, vt, vt_seq, emulator>>

\* Terminal::new(cols, rows, scrollback)
New(cols, rows, scrollback) ==
    /\ buffer = TerminalBufferNew(cols, rows, scrollback)
    /\ parser = ParserNew
    /\ last = [op |-> "new", data |-> <<cols, rows>>,
               before |-> [scrollback_len |-> 0, alternate |-> FALSE]]
    /\ fed = <<>>
    /\ snap = None
    /\ vt = VtParserNew
    /\ vt_seq = <<>>
    /\ emulator = [scrollback |-> <<>>]

\* ------------------------------------------------------------------- Spec
\* Cursor addressing.  The terminal receives blanks (which advance the cursor
\* and leave the grid as it is), line controls, every cursor movement command
\* with absent, zero, small and maximal parameters, scroll region and origin
\* mode changes, cursor save and restore, and layout changes.

CursorFinals == <<"A", "B", "C", "D", "E", "F", "G", "H", "f", "d">>

\* parameter strings: absent; 0; 2 and 2; the largest u16 and a second
\* parameter of more digits than a u16 holds
CursorParams ==
    {<<>>, <<"0">>, <<"2", ";", "2">>,
     <<"6", "5", "5", "3", "5", ";", "9", "9", "9", "9", "9", "9">>}

CursorMoves ==
    {Csi(ps \o <<CursorFinals[k]>>) : ps \in CursorParams, k \in 1..Len(CursorFinals)}

RegionInputs ==
    {Csi(<<"r">>), Csi(<<"2", "r">>), Csi(<<"1", ";", "1", "r">>),
     SET_ORIGIN, RESET_ORIGIN, Esc("7"), Esc("8"), Csi(<<"s">>), Csi(<<"u">>)}

TextInputs == {<<SPACE>>, <<LF>>, <<CR>>, <<BS>>}

Init ==
    \E cols \in 1..MaxCols, rows \in 1..MaxRows : New(cols, rows, 0)

Next ==
    \/ \E data \in CursorMoves \cup RegionInputs \cup TextInputs :
            Process(data) /\ UNCHANGED fed
    \/ \E cols \in 1..MaxCols, rows \in 1..MaxRows : Resize(cols, rows) /\ UNCHANGED fed
    \/ Write(<<SPACE>>) /\ UNCHANGED fed

Spec == Init /\ [][Next]_vars

InBounds(b) == b.cursor_x < b.size.cols /\ b.cursor_y < b.size.rows

\* C1: after any sequence of process, write and resize calls the cursor
\* position (x, y) satisfies x < cols and y < rows.
C1_CursorInBounds == InBounds(buffer)

\* C10: after each of CSI A, B, C, D, E, F, G, H, f, d, with any parameters
\* and from any state (origin mode on or off, any scroll region, a cursor
\* that a print or a restore left outside the grid), the cursor is in bounds.
C10_CursorMovesInBounds ==
    (last.op = "process" /\ last.data \in CursorMoves) => InBounds(buffer)

\* a downward move by the largest parameter, in origin mode with a region
\* that starts below the first row, has ended on scroll_bottom
C10_Witness ==
    /\ last.op = "process"
    /\ last.data = Csi(<<"6", "5", "5", "3", "5", ";", "9", "9", "9", "9", "9", "9", "B">>)
    /\ buffer.origin_mode
    /\ buffer.scroll_top > 0
    /\ buffer.cursor_y = buffer.scroll_bottom
    /\ buffer.size.cols = MaxCols

\* ------------------------------------------------------------- SpecTotal
\* Totality of process().  The terminal receives blanks and line feeds, the
\* alternate screen switches, line insertion and deletion, scrolling up and
\* down, a cursor move to the second row, and layout changes in between.

TotalInputs ==
    {<<SPACE>>, <<LF>>, SET_47, RESET_47,
     Csi(<<"1", "L">>), Csi(<<"2", "M">>), Csi(<<"1", "S">>), Csi(<<"1", "T">>),
     Csi(<<"2", ";", "1", "H">>)}

NextTotal ==
    \/ \E data \in TotalInputs : Process(data) /\ UNCHANGED fed
    \/ \E cols \in 1..MaxCols, rows \in 1..MaxRows : Resize(cols, rows) /\ UNCHANGED fed

SpecTotal == Init /\ [][NextTotal]_vars

\* C2: processing any byte completes without a panic: every index that
\* insert_lines, delete_lines, scroll_up and scroll_down use is a valid index
\* of the current screen.
C2_NoPanic == ~buffer.panicked

\* ------------------------------------------------------------ SpecScroll
\* Scrolling and scrollback on the primary screen.  The terminal, built with
\* a scrollback capacity of 0..MaxScrollback rows, receives a letter, line
\* feeds, cursor home, scroll regions that start at the first row or below
\* it, scrolls up and down by one and two lines, line insertion and deletion,
\* and layout changes.

ScrollUpInputs == {Csi(<<"1", "S">>), Csi(<<"2", "S">>), Esc("D")}

NoPushInputs == {Csi(<<"1", "T">>), Esc("M"), Csi(<<"1", "L">>), Csi(<<"1", "M">>)}

ScrollInputs ==
    {Bytes(<<"a">>), <<LF>>, Csi(<<"H">>), Csi(<<"2", "r">>), Csi(<<"r">>)}
        \cup ScrollUpInputs \cup NoPushInputs

InitScroll ==
    \E cols \in 1..MaxCols, rows \in 1..MaxRows, scrollback \in 0..MaxScrollback :
        New(cols, rows, scrollback)

NextScroll ==
    \/ \E data \in ScrollInputs : Process(data) /\ UNCHANGED fed
    \/ \E cols \in 1..MaxCols, rows \in 1..MaxRows : Resize(cols, rows) /\ UNCHANGED fed

SpecScroll == InitScroll /\ [][NextScroll]_vars

\* the step is a call of process with these bytes
Processes(data) == last'.op = "process" /\ last'.data = data

\* the step scrolls the region up by exactly one line: a line feed with the
\* cursor on scroll_bottom, CSI 1 S, or ESC D
ScrollsUpOnce ==
    \/ Processes(<<LF>>) /\ buffer.cursor_y = buffer.scroll_bottom
    \/ Processes(Csi(<<"1", "S">>))
    \/ Processes(Esc("D"))

\* C3: the scrollback never holds more than max_scrollback rows (also when
\* max_scrollback is 0), and a scroll that pushes a row while the scrollback
\* is full removes exactly the oldest row, keeps the others in order and puts
\* the new row last.
C3_ScrollbackFifo ==
    [][/\ scrollback_len(buffer) <= buffer.max_scrollback
       /\ scrollback_len(buffer') <= buffer'.max_scrollback
       /\ (/\ ScrollsUpOnce
           /\ buffer.scroll_top = 0
           /\ scrollback_len(buffer) = buffer.max_scrollback)
          => buffer'.scrollback =
                IF buffer.max_scrollback = 0 THEN <<>>
                ELSE Append(Tail(buffer.scrollback), buffer.screen[1])]_vars

\* a one-row terminal with a full scrollback of MaxScrollback rows has taken a
\* line feed: the oldest row is gone and the two rows now kept differ
C3_Witness ==
    /\ last.op = "process"
    /\ last.data = <<LF>>
    /\ buffer.size.rows = 1
    /\ buffer.max_scrollback = MaxScrollback
    /\ last.before.scrollback_len = MaxScrollback
    /\ scrollback_len(buffer) = MaxScrollback
    /\ buffer.scrollback[1] # buffer.scrollback[MaxScrollback]

\* C9: with scroll_top = 0 and room in the scrollback, a line feed with the
\* cursor on scroll_bottom adds exactly one row to the scrollback, the former
\* row 0 of the screen, as its last row; a scroll up with scroll_top > 0
\* leaves the scrollback as it is; scroll_down, insert_lines and delete_lines
\* never change the scrollback.
C9_ScrollFeedsScrollback ==
    [][/\ (/\ Processes(<<LF>>)
           /\ buffer.cursor_y = buffer.scroll_bottom
           /\ buffer.scroll_top = 0
           /\ scrollback_len(buffer) < buffer.max_scrollback)
          => buffer'.scrollback = Append(buffer.scrollback, buffer.screen[1])
       /\ (/\ ScrollsUpOnce \/ Processes(Csi(<<"2", "S">>))
           /\ buffer.scroll_top > 0)
          => buffer'.scrollback = buffer.scrollback
       /\ (last'.op = "process" /\ last'.data \in NoPushInputs)
          => buffer'.scrollback = buffer.scrollback]_vars

\* a line feed on the last row of a full-height region has added a row that
\* holds a letter to a scrollback that had room
C9_Witness ==
    /\ last.op = "process"
    /\ last.data = <<LF>>
    /\ buffer.size.rows = MaxRows
    /\ buffer.scroll_top = 0
    /\ buffer.cursor_y = buffer.scroll_bottom
    /\ scrollback_len(buffer) = last.before.scrollback_len + 1
    /\ buffer.scrollback[scrollback_len(buffer)] # EmptyRow(buffer.size.cols)

\* ------------------------------------------------------------- SpecChunk
\* Chunked delivery.  A terminal of MaxCols x MaxRows cells receives up to
\* MaxFed bytes in calls of 1..MaxChunk bytes each, over an alphabet that
\* spells control sequences (ESC [ 2 ; 2 H), OSC strings (ESC ] a BEL) and
\* text; fed records the bytes given so far.

ChunkAlphabet == {ESC, BEL} \cup {Ch(c) : c \in {"[", "]", "2", ";", "H", "a"}}

Chunks == UNION {[1..n -> ChunkAlphabet] : n \in 1..MaxChunk}

InitChunk == New(MaxCols, MaxRows, MaxScrollback)

NextChunk ==
    \E data \in Chunks :
        /\ Len(fed) + Len(data) <= MaxFed
        /\ Process(data)
        /\ fed' = fed \o data

SpecChunk == InitChunk /\ [][NextChunk]_vars

\* C4: however the bytes given so far were split into calls of process, the
\* buffer and the parser are what one call with all the bytes leaves.
C4_ChunkingIndependence ==
    Terminal = process(TerminalParserNew(MaxCols, MaxRows, MaxScrollback), fed)

\* ESC [ 2 H came with its final byte in a call of its own, and moved the
\* cursor to the second row
C4_Witness ==
    /\ fed = Csi(<<"2", "H">>)
    /\ last.data = Bytes(<<"H">>)
    /\ cursor_position(buffer) = <<0, 1>>

\* --------------------------------------------------------------- SpecAlt
\* The alternate screen.  The terminal receives a letter, line feeds (which
\* scroll on the last row), erase to the end of the display, line
\* insertion, cursor save and restore, the alternate screen switches
\* ESC[?47h and ESC[?47l, and ESC[?1049h ESC[?1049l in one call.

ROUND_TRIP_1049 == SET_1049 \o RESET_1049

AltInputs ==
    {Bytes(<<"a">>), <<LF>>, Csi(<<"J">>), Csi(<<"1", "L">>),
     Esc("7"), Esc("8"), SET_47, RESET_47, ROUND_TRIP_1049}

InitAlt == \E cols \in 1..MaxCols, rows \in 1..MaxRows : New(cols, rows, 0)

NextAlt == \E data \in AltInputs : Process(data) /\ UNCHANGED fed

SpecAlt == InitAlt /\ [][NextAlt]_vars

AlternateActive(b) == ~b.alternate_screen.none

\* C5: with the primary screen active, ESC[?1049h followed at once by
\* ESC[?1049l leaves every cell of the grid and the cursor as they were.
C5_RoundTrip1049 ==
    [][(Processes(ROUND_TRIP_1049) /\ ~AlternateActive(buffer))
        => View(buffer') = View(buffer)]_vars

\* the round trip was made from a primary screen and has left a grid that
\* holds a letter and a cursor away from the origin
C5_Witness ==
    /\ last.op = "process"
    /\ last.data = ROUND_TRIP_1049
    /\ ~last.before.alternate
    /\ buffer.size = [cols |-> MaxCols, rows |-> MaxRows]
    /\ buffer.screen # create_empty_screen(MaxCols, MaxRows)
    /\ cursor_position(buffer) = <<1, 1>>

\* C6: switch_to_alternate (ESC[?47h) on the alternate screen changes nothing
\* of the buffer, the saved primary screen included; switch_to_main (ESC[?47l)
\* on the primary screen changes nothing; alternate_screen and
\* alternate_cursor are present together or absent together.
C6_AlternateIdempotent ==
    [][/\ (Processes(SET_47) /\ AlternateActive(buffer)) => buffer' = buffer
       /\ (Processes(RESET_47) /\ ~AlternateActive(buffer)) => buffer' = buffer
       /\ buffer.alternate_screen.none <=> buffer.alternate_cursor.none
       /\ buffer'.alternate_screen.none <=> buffer'.alternate_cursor.none]_vars

\* ESC[?47h arrived on an alternate screen that holds a letter, with the
\* cursor away from the origin and a saved primary screen that differs
C6_Witness ==
    /\ last.op = "process"
    /\ last.data = SET_47
    /\ last.before.alternate
    /\ AlternateActive(buffer)
    /\ buffer.screen # create_empty_screen(buffer.size.cols, buffer.size.rows)
    /\ buffer.alternate_screen.val # buffer.screen
    /\ cursor_position(buffer) # <<0, 0>>

\* C7: switch_to_main (ESC[?47l) on the alternate screen leaves the grid and
\* the cursor that the primary screen had when the alternate screen was
\* entered, whatever was done in between; right after switch_to_alternate
\* (ESC[?47h) from the primary screen every cell is the default cell and the
\* cursor is at (0, 0).
C7_AlternateRestore ==
    [][/\ (Processes(RESET_47) /\ AlternateActive(buffer))
            => (~AlternateActive(buffer') /\ View(buffer') = snap.val)
       /\ (Processes(SET_47) /\ ~AlternateActive(buffer))
            => /\ AlternateActive(buffer')
               /\ buffer'.screen = create_empty_screen(buffer.size.cols, buffer.size.rows)
               /\ cursor_position(buffer') = <<0, 0>>]_vars

\* ESC[?47l has left the alternate screen and brought back a primary grid
\* that holds a letter, with the cursor on the last row, while the cursor
\* saved by ESC 7 is elsewhere
C7_Witness ==
    /\ last.op = "process"
    /\ last.data = RESET_47
    /\ last.before.alternate
    /\ ~AlternateActive(buffer)
    /\ buffer.screen # create_empty_screen(buffer.size.cols, buffer.size.rows)
    /\ buffer.cursor_y = MaxRows - 1
    /\ buffer.saved_cursor_y # buffer.cursor_y

\* -------------------------------------------------------------- SpecProv
\* Scrolling on either screen, with a scrollback of MaxScrollback rows: a
\* letter, line feeds, a scroll, and the alternate screen switches.

ProvInputs == {Bytes(<<"a">>), <<LF>>, Csi(<<"1", "S">>), SET_47, RESET_47}

InitProv == \E cols \in 1..MaxCols, rows \in 1..MaxRows : New(cols, rows, MaxScrollback)

NextProv == \E data \in ProvInputs : Process(data) /\ UNCHANGED fed

SpecProv == InitProv /\ [][NextProv]_vars

\* C8: no row shown on the alternate screen is ever appended to the
\* scrollback: while the alternate screen is active the scrollback stays as
\* it is.
C8_NoAlternateRowInScrollback ==
    [][AlternateActive(buffer) => buffer'.scrollback = buffer.scrollback]_vars

\* -------------------------------------------------------------- SpecWrap
\* Auto-wrap.  Terminal::write is given the first cols and the first cols + 1
\* letters of the alphabet; in between the terminal receives scroll regions
\* that end on the first or on the last row, cursor moves to the start of
\* either row, and auto-wrap off and on.

\* 'a', 'b', 'c', ...: the first n letters
Text(n) == [i \in 1..n |-> 96 + i]

WrapInputs ==
    {Csi(<<"1", ";", "1", "r">>), Csi(<<"2", "r">>), Csi(<<"r">>),
     Csi(<<"H">>), Csi(<<"2", ";", "1", "H">>),
     Csi(<<"?", "7", "l">>), Csi(<<"?", "7", "h">>)}

NextWrap ==
    \/ \E data \in WrapInputs : Process(data) /\ UNCHANGED fed
    \/ Write(Text(buffer.size.cols)) /\ UNCHANGED fed
    \/ Write(Text(buffer.size.cols + 1)) /\ UNCHANGED fed

SpecWrap == Init /\ [][NextWrap]_vars

\* the cell write_char leaves for character c: the character and the pen
PenCell(b, c) ==
    [character |-> c, fg |-> b.current_fg, bg |-> b.current_bg, attrs |-> b.current_attrs]

\* a row that holds the first cols characters of text, written with the pen
PenRow(b, text) == [x \in 1..b.size.cols |-> PenCell(b, text[x])]

\* the step is Terminal::write(text), made with auto-wrap on and the cursor
\* at column 0 of a row of the grid
WritesFromColumn0(text) ==
    /\ last'.op = "write"
    /\ last'.data = text
    /\ buffer.auto_wrap
    /\ buffer.cursor_x = 0
    /\ buffer.cursor_y < buffer.size.rows

\* row y of the grid after cols + 1 characters were written from (0, r) with
\* r = scroll_bottom: the region has moved up by one line, taking the cols
\* characters with it, and the last character starts a blank row r
RowAfterWrapScroll(y, r, text) ==
    IF y = r
    THEN [EmptyRow(buffer.size.cols) EXCEPT ![1] = PenCell(buffer, text[Len(text)])]
    ELSE IF buffer.scroll_top <= y /\ y < r
    THEN (IF y + 1 = r THEN PenRow(buffer, text) ELSE At(buffer.screen, y + 1))
    ELSE At(buffer.screen, y)

\* row y of the grid after cols + 1 characters were written from (0, r) with
\* r not scroll_bottom: row r holds the cols characters, the last character
\* is at column 0 of row r + 1
RowAfterWrap(y, r, text) ==
    IF y = r THEN PenRow(buffer, text)
    ELSE IF y = r + 1
    THEN [At(buffer.screen, y) EXCEPT ![1] = PenCell(buffer, text[Len(text)])]
    ELSE At(buffer.screen, y)

\* C11: with auto-wrap on and the cursor at column 0 of row r, writing
\* cols + 1 characters puts the first cols in row r and the last at column 0
\* of the next line: with exactly one scroll of the region when r is
\* scroll_bottom (the character lands at (0, r)), with no scroll otherwise
\* (it lands at (0, r + 1)); writing cols characters scrolls nothing.
C11_AutoWrap ==
    [][/\ WritesFromColumn0(Text(buffer.size.cols + 1))
            => IF buffer.cursor_y = buffer.scroll_bottom
               THEN /\ cursor_position(buffer') = <<1, buffer.cursor_y>>
                    /\ \A y \in 0..(buffer.size.rows - 1) :
                         At(buffer'.screen, y) =
                            RowAfterWrapScroll(y, buffer.cursor_y, last'.data)
               ELSE /\ cursor_position(buffer') = <<1, buffer.cursor_y + 1>>
                    /\ buffer.cursor_y + 1 < buffer.size.rows
                    /\ \A y \in 0..(buffer.size.rows - 1) :
                         At(buffer'.screen, y) =
                            RowAfterWrap(y, buffer.cursor_y, last'.data)
       /\ WritesFromColumn0(Text(buffer.size.cols))
            => /\ cursor_position(buffer') = <<buffer.size.cols, buffer.cursor_y>>
               /\ \A y \in 0..(buffer.size.rows - 1) :
                     At(buffer'.screen, y) =
                        IF y = buffer.cursor_y THEN PenRow(buffer, last'.data)
                        ELSE At(buffer.screen, y)]_vars

\* --------------------------------------------------------------- SpecPen
\* Printing with a pen and erasing.  The terminal receives a letter, line
\* feeds and carriage returns, a pen of red on green (ESC[31;42m) and the pen
\* reset (ESC[m), insert mode on and off, erase display (ESC[2J, ESC[3J), and
\* a letter followed by ESC[2J in one call.

SGR_RED_ON_GREEN == Csi(<<"3", "1", ";", "4", "2", "m">>)

ERASE_ALL == Csi(<<"2", "J">>)
ERASE_ALL_3 == Csi(<<"3", "J">>)
PRINT_THEN_ERASE == Bytes(<<"a">>) \o ERASE_ALL

PenInputs ==
    {Bytes(<<"a">>), <<LF>>, <<CR>>, SGR_RED_ON_GREEN, Csi(<<"m">>),
     Csi(<<"4", "h">>), Csi(<<"4", "l">>), ERASE_ALL, ERASE_ALL_3, PRINT_THEN_ERASE}

NextPen == \E data \in PenInputs : Process(data) /\ UNCHANGED fed

SpecPen == Init /\ [][NextPen]_vars

\* every cell of the grid of b, size().rows x size().cols, is the default Cell
AllDefault(b) ==
    /\ Len(b.screen) = b.size.rows
    /\ \A y \in 1..b.size.rows :
         /\ Len(b.screen[y]) = b.size.cols
         /\ \A x \in 1..b.size.cols : b.screen[y][x] = CellDefault

\* C12: after ESC[2J or ESC[3J every cell of the grid is the default Cell,
\* whatever pen wrote the content before, and the cursor is where it was.
C12_EraseDisplay ==
    [][/\ (Processes(ERASE_ALL) \/ Processes(ERASE_ALL_3))
            => (AllDefault(buffer') /\ cursor_position(buffer') = cursor_position(buffer))
       /\ Processes(PRINT_THEN_ERASE) => AllDefault(buffer')]_vars

\* a letter was printed in red on green and erased by ESC[2J in the same
\* call: the grid is all default, the pen still red on green
C12_Witness ==
    /\ last.op = "process"
    /\ last.data = PRINT_THEN_ERASE
    /\ buffer.current_fg = At(ANSI_COLORS, 1)
    /\ buffer.current_bg = At(ANSI_COLORS, 2)
    /\ cursor_position(buffer) = <<MaxCols, MaxRows - 1>>
    /\ AllDefault(buffer)

\* C14: a printable character processed with the cursor at an in-bounds
\* position (x, y) and insert mode off leaves at (x, y) the character with
\* fg, bg and attrs of the pen, changes no other cell, and advances the
\* cursor column by one.
C14_PrintUsesPen ==
    [][(/\ Processes(Bytes(<<"a">>))
        /\ InBounds(buffer)
        /\ ~buffer.insert_mode)
        => /\ buffer'.screen =
                [buffer.screen EXCEPT ![buffer.cursor_y + 1][buffer.cursor_x + 1] =
                    PenCell(buffer, Ch("a"))]
           /\ cursor_position(buffer') = <<buffer.cursor_x + 1, buffer.cursor_y>>]_vars

\* after ESC[31;42m a letter went into the last column of the last row: the
\* cell holds it in ANSI red on green, next to a cell written with the
\* default pen
C14_Witness ==
    /\ last.op = "process"
    /\ last.data = Bytes(<<"a">>)
    /\ buffer.size = [cols |-> MaxCols, rows |-> MaxRows]
    /\ ~buffer.insert_mode
    /\ cursor_position(buffer) = <<MaxCols, MaxRows - 1>>
    /\ buffer.screen[MaxRows][MaxCols] =
          [character |-> Ch("a"), fg |-> rgb(205, 49, 49), bg |-> rgb(13, 188, 121),
           attrs |-> CellAttributesDefault]
    /\ buffer.screen[MaxRows][MaxCols - 1] = [CellDefault EXCEPT !.character = Ch("a")]

\* ---------------------------------------------------------------- SpecSgr
\* The pen.  The terminal receives SGR sequences of every family (attribute
\* codes, base and bright colours, 256-colour and truecolour groups), resets
\* with an explicit and with an absent parameter, and parameter lists with a
\* code 0 in the middle.

SGR_RESET_0 == Csi(<<"0", "m">>)
SGR_RESET_ABSENT == Csi(<<"m">>)
SGR_ALL_FAMILIES ==
    Csi(<<"1", ";", "7", ";", "9", "1", ";", "4", "8", ";", "2", ";", "1", ";", "2", ";", "3", "m">>)
SET_THEN_RESET == SGR_ALL_FAMILIES \o SGR_RESET_0
SGR_MID_RESET == Csi(<<"1", ";", "3", "1", ";", "0", ";", "4", "m">>)
SGR_END_RESET == Csi(<<"3", ";", "4", "4", ";", "0", "m">>)

SgrInputs ==
    {Csi(<<"1", "m">>), Csi(<<"2", ";", "3", "m">>), Csi(<<"4", ";", "5", "m">>),
     Csi(<<"7", ";", "8", ";", "9", "m">>), Csi(<<"2", "2", "m">>),
     Csi(<<"3", "1", "m">>), Csi(<<"4", "2", "m">>), Csi(<<"9", "2", "m">>),
     Csi(<<"1", "0", "3", "m">>),
     Csi(<<"3", "8", ";", "5", ";", "2", "0", "0", "m">>),
     Csi(<<"4", "8", ";", "5", ";", "2", "4", "0", "m">>),
     Csi(<<"3", "8", ";", "2", ";", "1", ";", "2", ";", "3", "m">>),
     SGR_ALL_FAMILIES, SGR_RESET_0, SGR_RESET_ABSENT, SET_THEN_RESET,
     SGR_MID_RESET, SGR_END_RESET}

NextSgr == \E data \in SgrInputs : Process(data) /\ UNCHANGED fed

SpecSgr == Init /\ [][NextSgr]_vars

\* the pen of b: current_fg, current_bg, current_attrs
Pen(b) == [fg |-> b.current_fg, bg |-> b.current_bg, attrs |-> b.current_attrs]

PenDefault == [fg |-> WHITE, bg |-> BLACK, attrs |-> CellAttributesDefault]

\* C13: after any sequence of SGR sequences, ESC[0m and ESC[m leave all
\* eight pen attributes false and fg and bg at their defaults; a code 0 in
\* the middle of a parameter list resets everything set by the codes before
\* it, so that only the codes after it show.
C13_SgrReset ==
    [][/\ (Processes(SGR_RESET_0) \/ Processes(SGR_RESET_ABSENT)
            \/ Processes(SET_THEN_RESET) \/ Processes(SGR_END_RESET))
          => Pen(buffer') = PenDefault
       /\ Processes(SGR_MID_RESET)
          => Pen(buffer') = [PenDefault EXCEPT !.attrs.underline = TRUE]]_vars

\* bold, inverse, bright red and a truecolour background were set and reset
\* by ESC[0m in the same call
C13_Witness ==
    /\ last.op = "process"
    /\ last.data = SET_THEN_RESET
    /\ Pen(buffer) = PenDefault

\* ------------------------------------------------------------- SpecRegion
\* The scroll region.  Terminals of up to MaxRegionRows rows receive CSI r
\* with absent, zero, ordered, reversed, too large and maximal parameters,
\* line feeds, reverse line feeds and origin mode changes, and are resized.

MaxRegionRows == 3

RegionParams ==
    {<<>>, <<"2">>, <<"3">>, <<"1", ";", "1">>, <<"2", ";", "1">>, <<"2", ";", "3">>,
     <<"3", ";", "2">>, <<"0", ";", "0">>, <<"9", ";", "9">>,
     <<"6", "5", "5", "3", "5", ";", "9", "9", "9", "9", "9", "9">>}

SetRegionInputs == {Csi(ps \o <<"r">>) : ps \in RegionParams}

OtherRegionInputs == {<<LF>>, SET_ORIGIN, RESET_ORIGIN, Esc("M")}

InitRegion ==
    \E cols \in 1..MaxCols, rows \in 1..MaxRegionRows : New(cols, rows, 0)

NextRegion ==
    \/ \E data \in SetRegionInputs \cup OtherRegionInputs : Process(data) /\ UNCHANGED fed
    \/ \E cols \in 1..MaxCols, rows \in 1..MaxRegionRows :
            Resize(cols, rows) /\ UNCHANGED fed

SpecRegion == InitRegion /\ [][NextRegion]_vars

\* C15: in every reachable state scroll_top <= scroll_bottom < rows, and a
\* new buffer and a buffer just resized have scroll_bottom = rows - 1.
C15_ScrollRegion ==
    /\ buffer.scroll_top <= buffer.scroll_bottom
    /\ buffer.scroll_bottom < buffer.size.rows
    /\ last.op \in {"new", "resize"} => buffer.scroll_bottom = buffer.size.rows - 1

\* a region set by CSI r to start below row 0 went through a resize to
\* MaxRegionRows - 1 rows: scroll_top is inside the new grid and kept,
\* scroll_bottom is the new last row
C15_Witness ==
    /\ last.op = "resize"
    /\ buffer.size.rows = MaxRegionRows - 1
    /\ buffer.scroll_top = MaxRegionRows - 2
    /\ buffer.scroll_bottom = MaxRegionRows - 2

\* ------------------------------------------------------------- SpecResize
\* Resizing.  The terminal receives letters written with the default pen and
\* in red on green, line feeds, and every resize to 1..MaxCols columns and
\* 1..MaxRows rows.  Nothing but a resize moves the cursor to the left.

ResizeInputs == {Bytes(<<"a">>), <<LF>>, SGR_RED_ON_GREEN, SGR_RESET_ABSENT}

NextResize ==
    \/ \E data \in ResizeInputs : Process(data) /\ UNCHANGED fed
    \/ \E cols \in 1..MaxCols, rows \in 1..MaxRows : Resize(cols, rows) /\ UNCHANGED fed

SpecResize == Init /\ [][NextResize]_vars

\* the cell (x, y) of the grid of b, 0-indexed, for a position inside it
CellAt(b, x, y) == b.screen[y + 1][x + 1]

\* C16: resize(c, r) with c, r >= 1 from a grid of c0 x r0 leaves a grid of
\* c x r in which every cell (x, y) with x < min(c, c0) and y < min(r, r0) is
\* the old cell and every other cell is default; size() is (c, r), the cursor
\* has x <= c - 1 and y <= r - 1, and scroll_bottom is r - 1.
C16_ResizeKeepsTopLeft ==
    [][last'.op = "resize" =>
        /\ buffer'.size = [cols |-> last'.data[1], rows |-> last'.data[2]]
        /\ Len(buffer'.screen) = buffer'.size.rows
        /\ \A y \in 0..(buffer'.size.rows - 1) :
             /\ Len(buffer'.screen[y + 1]) = buffer'.size.cols
             /\ \A x \in 0..(buffer'.size.cols - 1) :
                  CellAt(buffer', x, y) =
                     IF x < Min(buffer'.size.cols, buffer.size.cols)
                        /\ y < Min(buffer'.size.rows, buffer.size.rows)
                     THEN CellAt(buffer, x, y)
                     ELSE CellDefault
        /\ buffer'.cursor_x <= buffer'.size.cols - 1
        /\ buffer'.cursor_y <= buffer'.size.rows - 1
        /\ buffer'.scroll_bottom = buffer'.size.rows - 1]_vars

\* a red-on-green letter at (0, 0) with the cursor in column 0: the terminal
\* was shrunk to one column, which pulled the cursor back over the letter,
\* and has just grown to MaxCols x MaxRows; all the cells added are default
C16_Witness ==
    /\ last.op = "resize"
    /\ buffer.size = [cols |-> MaxCols, rows |-> MaxRows]
    /\ cursor_position(buffer) = <<0, 0>>
    /\ CellAt(buffer, 0, 0) = [character |-> Ch("a"), fg |-> rgb(205, 49, 49),
                               bg |-> rgb(13, 188, 121), attrs |-> CellAttributesDefault]
    /\ \A x \in 0..(MaxCols - 1), y \in 0..(MaxRows - 1) :
          <<x, y>> # <<0, 0>> => CellAt(buffer, x, y) = CellDefault

\* --------------------------------------------------------- SpecDegenerate
\* Resizing to nothing.  The terminal receives letters and line feeds while
\* its grid has a cell, and every resize to 0..MaxCols columns and 0..MaxRows
\* rows, from grids with and without cells.

\* usize::MAX.  It is what 0 - 1 wraps to; the model only compares it with
\* row numbers and writes it as the largest integer at hand.
USIZE_MAX == 2147483647

\* resize for every u16 cols and rows.  For rows = 0 the subtraction
\* new_rows - 1 underflows after the grid, the size and the cursor are set:
\* a build with overflow checks panics there, a build without them wraps
\* to usize::MAX and goes on.
resize_u16(b, cols, rows, overflow_checks) ==
    IF rows >= 1 THEN resize(b, cols, rows)
    ELSE IF overflow_checks
    THEN [b EXCEPT !.screen = create_empty_screen(cols, rows),
                   !.size = [cols |-> cols, rows |-> rows],
                   !.cursor_x = Min(b.cursor_x, SatSub(cols, 1)),
                   !.cursor_y = Min(b.cursor_y, SatSub(rows, 1)),
                   !.panicked = TRUE]
    ELSE [b EXCEPT !.screen = create_empty_screen(cols, rows),
                   !.size = [cols |-> cols, rows |-> rows],
                   !.cursor_x = Min(b.cursor_x, SatSub(cols, 1)),
                   !.cursor_y = Min(b.cursor_y, SatSub(rows, 1)),
                   !.scroll_bottom = USIZE_MAX,
                   !.scroll_top = IF b.scroll_top >= rows THEN 0 ELSE b.scroll_top]

\* Terminal::resize(cols, rows) for every u16 cols and rows, in either build
ResizeU16(cols, rows) ==
    /\ ~buffer.panicked
    /\ \E overflow_checks \in BOOLEAN :
          buffer' = resize_u16(buffer, cols, rows, overflow_checks)
    /\ last' = [op |-> "resize", data |-> <<cols, rows>>, before |-> Before]
    /\ UNCHANGED <<parser, snap, vt, vt_seq, emulator>>

DegenerateInputs == {Bytes(<<"a">>), <<LF>>, <<CR>>}

NextDegenerate ==
    \/ \E data \in DegenerateInputs :
          /\ buffer.size.cols >= 1
          /\ buffer.size.rows >= 1
          /\ Process(data)
          /\ UNCHANGED fed
    \/ \E cols \in 0..MaxCols, rows \in 0..MaxRows : ResizeU16(cols, rows) /\ UNCHANGED fed

SpecDegenerate == Init /\ [][NextDegenerate]_vars

\* C17: resize(cols, rows) with cols = 0 or rows = 0 completes without panic
\* or underflow and behaves as if the zero were 1: afterwards size().cols >= 1,
\* size().rows >= 1 and scroll_bottom = size().rows - 1.
C17_DegenerateResizeClamped ==
    [][(/\ last'.op = "resize"
        /\ (last'.data[1] = 0 \/ last'.data[2] = 0))
        => /\ ~buffer'.panicked
           /\ buffer'.size.cols >= 1
           /\ buffer'.size.rows >= 1
           /\ buffer'.scroll_bottom = buffer'.size.rows - 1
           /\ buffer' = resize(buffer, Max(last'.data[1], 1), Max(last'.data[2], 1))]_vars

\* ---------------------------------------------------------- SpecMalformed
\* Malformed SGR.  The terminal receives SGR sequences of unknown codes,
\* extended-colour codes cut short at every length, and valid sequences.

SGR_UNKNOWN == Csi(<<"9", "9", "m">>)
SGR_UNKNOWN_LIST == Csi(<<"1", "0", ";", "5", "0", ";", "6", "5", "5", "3", "5", "m">>)
SGR_38_ALONE == Csi(<<"3", "8", "m">>)
SGR_38_5 == Csi(<<"3", "8", ";", "5", "m">>)
SGR_48_2_10 == Csi(<<"4", "8", ";", "2", ";", "1", "0", "m">>)
SGR_38_2_R_G == Csi(<<"3", "8", ";", "2", ";", "1", "0", ";", "2", "0", "m">>)
SGR_RED == Csi(<<"3", "1", "m">>)
SGR_ITALIC == Csi(<<"3", "m">>)

UnknownSgr == {SGR_UNKNOWN, SGR_UNKNOWN_LIST}
TruncatedSgr == {SGR_38_ALONE, SGR_38_5, SGR_48_2_10, SGR_38_2_R_G}
ValidSgr == {SGR_RED, SGR_ITALIC, SGR_RESET_ABSENT}

NextMalformed ==
    \E data \in UnknownSgr \cup TruncatedSgr \cup ValidSgr : Process(data) /\ UNCHANGED fed

SpecMalformed == Init /\ [][NextMalformed]_vars

\* the valid sequences of SpecMalformed act on the pen as they do anywhere
ValidApplied ==
    /\ Processes(SGR_RED) => Pen(buffer') = [Pen(buffer) EXCEPT !.fg = At(ANSI_COLORS, 1)]
    /\ Processes(SGR_ITALIC) => Pen(buffer') = [Pen(buffer) EXCEPT !.attrs.italic = TRUE]
    /\ Processes(SGR_RESET_ABSENT) => Pen(buffer') = PenDefault

\* C18: an SGR sequence of unknown codes only, or of an extended-colour code
\* 38 or 48 without a complete 5;N or 2;R;G;B group after it, leaves fg, bg
\* and all attributes of the pen as they were, and the next valid sequence is
\* applied normally.
C18_MalformedSgrNoOp ==
    [][/\ (\E data \in UnknownSgr \cup TruncatedSgr : Processes(data))
            => Pen(buffer') = Pen(buffer)
       /\ ValidApplied]_vars

\* the part of C18 that the code keeps: unknown codes and a lone 38
C18_UnknownSgrNoOp ==
    [][/\ (\E data \in UnknownSgr \cup {SGR_38_ALONE} : Processes(data))
            => Pen(buffer') = Pen(buffer)
       /\ ValidApplied]_vars

\* ----------------------------------------------------------------- SpecVt
\* The VtParser.  A parser is given, one byte per call, ESC, '[', ']', BEL,
\* the digits 0, 1 and 5, ';', the final bytes H, A and B and the letter a;
\* a CSI sequence has at most MaxVtBody bytes between ESC [ and its last one.

MaxVtBody == 4

VtBytes ==
    {ESC, BEL, Ch("["), Ch("]"), Ch(";"), Ch("0"), Ch("1"), Ch("5"),
     Ch("H"), Ch("A"), Ch("B"), Ch("a")}

\* history: the CSI sequence under way began with parameters of an earlier
\* sequence in the parser
Stale(byte) ==
    IF vt.state = "Escape" /\ byte = Ch("[") THEN vt.params # <<>>
    ELSE last.before.stale

\* VtParser::new()
InitVt ==
    /\ vt = VtParserNew
    /\ vt_seq = <<>>
    /\ emulator = [scrollback |-> <<>>]
    /\ last = [op |-> "new", data |-> 0, ret |-> None,
               before |-> [state |-> "Normal", stale |-> FALSE]]
    /\ buffer = TerminalBufferNew(1, 1, 0)
    /\ parser = ParserNew
    /\ fed = <<>>
    /\ snap = None

\* vt.parse(byte)
Parse(byte) ==
    /\ (vt.state = "Csi" /\ Len(vt_seq) >= MaxVtBody + 2)
            => parse(vt, byte)[1].state = "Normal"
    /\ vt' = parse(vt, byte)[1]
    /\ vt_seq' = IF vt.state = "Escape" /\ byte = Ch("[") THEN <<ESC, byte>>
                 ELSE IF vt.state = "Csi" THEN Append(vt_seq, byte)
                 ELSE vt_seq
    /\ last' = [op |-> "parse", data |-> byte, ret |-> parse(vt, byte)[2],
                before |-> [state |-> vt.state, stale |-> Stale(byte)]]
    /\ UNCHANGED <<buffer, parser, fed, snap, emulator>>

NextVt == \E byte \in VtBytes : Parse(byte)

SpecVt == InitVt /\ [][NextVt]_vars

\* the bytes of a CSI sequence between ESC [ and the final byte
Body(s) == SubSeq(s, 3, Len(s) - 1)

\* a parameter string cut at its ';'
RECURSIVE Fields(_)
Fields(s) ==
    IF \A k \in 1..Len(s) : s[k] # Ch(";") THEN <<s>>
    ELSE <<SubSeq(s, 1, (CHOOSE k \in 1..Len(s) :
                            s[k] = Ch(";") /\ \A j \in 1..(k - 1) : s[j] # Ch(";")) - 1)>>
         \o Fields(SubSeq(s, (CHOOSE k \in 1..Len(s) :
                                s[k] = Ch(";") /\ \A j \in 1..(k - 1) : s[j] # Ch(";")) + 1,
                          Len(s)))

\* the i-th parameter of a parameter string, 1 where it is absent or empty
FieldOr1(s, i) ==
    IF i <= Len(Fields(s)) /\ Fields(s)[i] # <<>> THEN DigitsValue(Fields(s)[i]) ELSE 1

\* C19: for ESC [ p1 ; p2 H given byte by byte, parse returns
\* CursorPosition(p1 - 1, p2 - 1) at the final byte, saturating at 0, where a
\* parameter that is absent or empty is 1 in its own position.
C19_CursorPositionParams ==
    (/\ last.op = "parse"
     /\ last.before.state = "Csi"
     /\ last.data = Ch("H")
     /\ Len(Fields(Body(vt_seq))) <= 2)
        => last.ret = Some(CursorPosition(SatSub(FieldOr1(Body(vt_seq), 1), 1),
                                          SatSub(FieldOr1(Body(vt_seq), 2), 1)))

\* the parameters of a parameter string that parse collects
RECURSIVE Values(_)
Values(fields) ==
    IF fields = <<>> THEN <<>>
    ELSE IF Head(fields) = <<>> THEN Values(Tail(fields))
    ELSE <<DigitsValue(Head(fields))>> \o Values(Tail(fields))

VtTags ==
    {"Print", "CursorUp", "CursorDown", "CursorForward", "CursorBackward",
     "CursorPosition", "ClearScreen", "ClearLine", "SetGraphicsMode"}

\* C20: in Normal a byte other than ESC yields Print(byte) and the parser
\* stays in Normal; in Escape, Csi and OscString parse returns None for every
\* byte that does not end the sequence; the byte that ends it yields at most
\* one command, made of the parameters of this sequence alone.
C20_CommandEmission ==
    [][/\ (vt.state = "Normal" /\ last'.data # ESC)
            => (last'.ret = Some(VtPrint(last'.data)) /\ vt' = vt)
       /\ (vt.state # "Normal" /\ vt'.state # "Normal") => last'.ret = None
       /\ (last'.ret.none \/ last'.ret.val.tag \in VtTags)
       /\ (vt.state = "Csi" /\ vt'.state = "Normal")
            => last'.ret =
                 handle_csi_command(
                    [VtParserNew EXCEPT !.params = Values(Fields(Body(vt_seq')))],
                    last'.data)]_vars

\* ESC [ A came to a parser that held the parameters of an earlier CSI
\* sequence, and yields CursorUp(1)
C20_Witness ==
    /\ last.op = "parse"
    /\ last.before.state = "Csi"
    /\ last.before.stale
    /\ vt_seq = <<ESC, Ch("["), Ch("A")>>
    /\ last.ret = Some(CursorUp(1))

\* the part of C19 that the code keeps: no empty parameter before a ';'
C19_FirstParamPresent ==
    (/\ last.op = "parse"
     /\ last.before.state = "Csi"
     /\ last.data = Ch("H")
     /\ Len(Fields(Body(vt_seq))) <= 2
     /\ (Len(Fields(Body(vt_seq))) = 2 => Fields(Body(vt_seq))[1] # <<>>))
        => last.ret = Some(CursorPosition(SatSub(FieldOr1(Body(vt_seq), 1), 1),
                                          SatSub(FieldOr1(Body(vt_seq), 2), 1)))

\* ---------------------------------------------------------------- SpecOsc
\* OSC strings.  A VtParser is given, one byte per call, ESC, ']', '[', BEL,
\* '\', ';', the digit 5 and the letters a and A.

OscBytes == {ESC, BEL, Ch("]"), Ch("["), Ch("\\"), Ch(";"), Ch("5"), Ch("a"), Ch("A")}

NextOsc == \E byte \in OscBytes : Parse(byte)

SpecOsc == InitVt /\ [][NextOsc]_vars

\* C21: after ESC ] parse returns no command for any byte of the string, and
\* the parser is back in Normal when the string is ended by BEL and equally
\* when it is ended by ST (ESC \), so that the bytes after either terminator
\* are printed.
C21_OscTermination ==
    [][/\ vt.state = "OscString" => last'.ret = None
       /\ (vt.state = "OscString" /\ last'.data = BEL) => vt'.state = "Normal"
       /\ (/\ vt.state = "OscString"
           /\ last.op = "parse" /\ last.before.state = "OscString" /\ last.data = ESC
           /\ last'.data = Ch("\\"))
            => vt'.state = "Normal"
       /\ (/\ last.op = "parse" /\ last.before.state = "OscString" /\ last.data = BEL
           /\ last'.data = Ch("a"))
            => last'.ret = Some(VtPrint(Ch("a")))]_vars

\* the part of C21 that the code keeps: the string ended by BEL
C21_OscEndedByBel ==
    [][/\ vt.state = "OscString" => last'.ret = None
       /\ (vt.state = "OscString" /\ last'.data = BEL) => vt'.state = "Normal"
       /\ (/\ last.op = "parse" /\ last.before.state = "OscString" /\ last.data = BEL
           /\ last'.data = Ch("a"))
            => last'.ret = Some(VtPrint(Ch("a")))]_vars

\* ------------------------------------------------------------- SpecSearch
\* Search.  The scrollback holds up to MaxSearchRows rows of up to
\* MaxSearchCols letters a and A; it is searched for the empty pattern and
\* for patterns of one and two letters, with and without regard to case.

MaxSearchRows == 2
MaxSearchCols == 3

\* char::to_lowercase for the 7-bit characters
ToLowerAscii(c) == IF 65 <= c /\ c <= 90 THEN c + 32 ELSE c

to_lowercase(s) == [i \in 1..Len(s) |-> ToLowerAscii(s[i])]

\* the offsets at which pat occurs in text
Offsets(text, pat) ==
    {k \in 0..(Len(text) - Len(pat)) : SubSeq(text, k + 1, k + Len(pat)) = pat}

\* str::find(pat): the first offset at which pat occurs
Find(text, pat) ==
    IF Offsets(text, pat) = {} THEN None
    ELSE Some(CHOOSE k \in Offsets(text, pat) : \A j \in Offsets(text, pat) : k <= j)

\* the while loop of search over one row.  text[start..] panics when start
\* is past the end of text.
RECURSIVE SearchRow(_, _, _, _, _)
SearchRow(row_idx, text, pattern, start, matches) ==
    IF start > Len(text) THEN [panicked |-> TRUE, matches |-> matches]
    ELSE IF Find(SubSeq(text, start + 1, Len(text)), pattern).none
    THEN [panicked |-> FALSE, matches |-> matches]
    ELSE SearchRow(row_idx, text, pattern,
                   start + Find(SubSeq(text, start + 1, Len(text)), pattern).val + 1,
                   Append(matches,
                          <<row_idx,
                            start + Find(SubSeq(text, start + 1, Len(text)), pattern).val>>))

\* the for loop of search over the rows of the scrollback
RECURSIVE SearchRows(_, _, _, _)
SearchRows(rows, pattern, case_sensitive, found) ==
    IF found.panicked \/ found.row_idx >= Len(rows) THEN found
    ELSE SearchRows(rows, pattern, case_sensitive,
            [row_idx |-> found.row_idx + 1] @@
            SearchRow(found.row_idx,
                      IF case_sensitive THEN At(rows, found.row_idx)
                      ELSE to_lowercase(At(rows, found.row_idx)),
                      pattern, 0, found.matches))

\* search(pattern, case_sensitive): the matches, or the panic
search(e, pattern, case_sensitive) ==
    SearchRows(e.scrollback,
               IF case_sensitive THEN pattern ELSE to_lowercase(pattern),
               case_sensitive,
               [row_idx |-> 0, panicked |-> FALSE, matches |-> <<>>])

SearchLetters == {Ch("a"), Ch("A")}

RECURSIVE Strings(_)
Strings(n) ==
    IF n = 0 THEN {<<>>}
    ELSE Strings(n - 1) \cup {Append(s, c) : s \in Strings(n - 1), c \in SearchLetters}

RECURSIVE Scrollbacks(_)
Scrollbacks(n) ==
    IF n = 0 THEN {<<>>}
    ELSE Scrollbacks(n - 1)
         \cup {Append(rows, row) : rows \in Scrollbacks(n - 1), row \in Strings(MaxSearchCols)}

SearchPatterns == Strings(2)

InitSearch ==
    /\ emulator \in {[scrollback |-> rows] : rows \in Scrollbacks(MaxSearchRows)}
    /\ last = [op |-> "new", data |-> <<>>]
    /\ buffer = TerminalBufferNew(1, 1, 0)
    /\ parser = ParserNew
    /\ fed = <<>>
    /\ snap = None
    /\ vt = VtParserNew
    /\ vt_seq = <<>>

\* emulator.search(pattern, case_sensitive)
Search(pattern, case_sensitive) ==
    /\ last' = [op |-> "search", data |-> <<pattern, case_sensitive>>,
                ret |-> search(emulator, pattern, case_sensitive)]
    /\ UNCHANGED <<buffer, parser, fed, snap, vt, vt_seq, emulator>>

NextSearch ==
    \E pattern \in SearchPatterns, case_sensitive \in BOOLEAN : Search(pattern, case_sensitive)

SpecSearch == InitSearch /\ [][NextSearch]_vars

\* the (row, column) positions at which pattern occurs in rows
Occurrences(rows, pattern, case_sensitive) ==
    {<<y, x>> \in (0..(Len(rows) - 1)) \X (0..MaxSearchCols) :
        /\ x + Len(pattern) <= Len(At(rows, y))
        /\ IF case_sensitive
           THEN SubSeq(At(rows, y), x + 1, x + Len(pattern)) = pattern
           ELSE to_lowercase(SubSeq(At(rows, y), x + 1, x + Len(pattern)))
                    = to_lowercase(pattern)}

\* C22: search ends without panic for every pattern, the empty one
\* included, and for a non-empty pattern returns exactly the positions of
\* its occurrences in the rows, overlapping ones included, compared without
\* regard to case when case_sensitive is false.
C22_Search ==
    last.op = "search" =>
        /\ ~last.ret.panicked
        /\ last.data[1] # <<>> =>
            /\ {last.ret.matches[i] : i \in 1..Len(last.ret.matches)}
                  = Occurrences(emulator.scrollback, last.data[1], last.data[2])
            /\ Len(last.ret.matches)
                  = Cardinality(Occurrences(emulator.scrollback, last.data[1], last.data[2]))

\* the part of C22 that the code keeps: the patterns that are not empty
C22_SearchNonEmpty ==
    (last.op = "search" /\ last.data[1] # <<>>) =>
        /\ ~last.ret.panicked
        /\ {last.ret.matches[i] : i \in 1..Len(last.ret.matches)}
              = Occurrences(emulator.scrollback, last.data[1], last.data[2])
        /\ Len(last.ret.matches)
              = Cardinality(Occurrences(emulator.scrollback, last.data[1], last.data[2]))

\* -------------------------------------------------------------- SpecClear
\* Erasing.  A terminal with one row of scrollback receives a letter written
\* with the default pen and in red on green, line feeds and carriage returns,
\* every erase in display and erase in line, erase characters with counts 1
\* and 2, and calls of clear().

ERASE_TO_END == Csi(<<"J">>)
ERASE_TO_START == Csi(<<"1", "J">>)
ERASE_LINE_TO_END == Csi(<<"K">>)
ERASE_LINE_TO_START == Csi(<<"1", "K">>)
ERASE_LINE == Csi(<<"2", "K">>)
ERASE_CHARS_1 == Csi(<<"1", "X">>)
ERASE_CHARS_2 == Csi(<<"2", "X">>)

EraseInputs ==
    {ERASE_TO_END, ERASE_TO_START, ERASE_ALL, ERASE_LINE_TO_END, ERASE_LINE_TO_START,
     ERASE_LINE, ERASE_CHARS_1, ERASE_CHARS_2}

ClearInputs == {Bytes(<<"a">>), <<LF>>, <<CR>>, SGR_RED_ON_GREEN} \cup EraseInputs

InitClear ==
    \E cols \in 1..MaxCols, rows \in 1..MaxRows : New(cols, rows, 1)

NextClear ==
    \/ \E data \in ClearInputs : Process(data) /\ UNCHANGED fed
    \/ Clear /\ UNCHANGED fed

SpecClear == InitClear /\ [][NextClear]_vars

\* the cell (x, y) is in the range of the erase made by the bytes data, or
\* by clear(), with the cursor at (cx, cy)
InEraseRange(op, data, x, y, cx, cy) ==
    IF op = "clear" \/ data = ERASE_ALL THEN TRUE
    ELSE IF data = ERASE_TO_END THEN y > cy \/ (y = cy /\ x >= cx)
    ELSE IF data = ERASE_TO_START THEN y < cy \/ (y = cy /\ x <= cx)
    ELSE IF data = ERASE_LINE THEN y = cy
    ELSE IF data = ERASE_LINE_TO_END THEN y = cy /\ x >= cx
    ELSE IF data = ERASE_LINE_TO_START THEN y = cy /\ x <= cx
    ELSE IF data = ERASE_CHARS_1 THEN y = cy /\ x = cx
    ELSE IF data = ERASE_CHARS_2 THEN y = cy /\ cx <= x /\ x <= cx + 1
    ELSE FALSE

\* the step is an erase: clear() or one of the erase sequences
Erases == last'.op = "clear" \/ (last'.op = "process" /\ last'.data \in EraseInputs)

\* C23: after clear_to_end, clear_to_start, clear_line, clear_line_to_end or
\* clear_line_to_start every cell of the range is the default Cell: a space,
\* no attribute, and the default fg and bg, whatever pen wrote it.
C23_ClearGivesDefaultCells ==
    [][(/\ last'.op = "process"
        /\ last'.data \in {ERASE_TO_END, ERASE_TO_START, ERASE_LINE,
                           ERASE_LINE_TO_END, ERASE_LINE_TO_START})
        => \A y \in 0..(buffer.size.rows - 1), x \in 0..(buffer.size.cols - 1) :
              InEraseRange(last'.op, last'.data, x, y, buffer.cursor_x, buffer.cursor_y)
                 => CellAt(buffer', x, y) = CellDefault]_vars

\* C24: clear, clear_to_end, clear_to_start, clear_line, clear_line_to_end,
\* clear_line_to_start and erase_chars(n) leave the cursor, the pen, the
\* modes, the scroll region and the scrollback as they are, and every cell
\* outside their range.
C24_ClearIsBounded ==
    [][Erases =>
        /\ [buffer' EXCEPT !.screen = buffer.screen] = buffer
        /\ \A y \in 0..(buffer.size.rows - 1), x \in 0..(buffer.size.cols - 1) :
              ~InEraseRange(last'.op, last'.data, x, y, buffer.cursor_x, buffer.cursor_y)
                 => CellAt(buffer', x, y) = CellAt(buffer, x, y)]_vars

\* erase_chars(1) at column 0 of a row of red-on-green letters, with a row
\* in the scrollback: the cell under the cursor is blank, the next one and
\* the scrollback are as they were
C24_Witness ==
    /\ last.op = "process"
    /\ last.data = ERASE_CHARS_1
    /\ buffer.size.cols = MaxCols
    /\ cursor_position(buffer) = <<0, 0>>
    /\ CellAt(buffer, 0, 0).character = SPACE
    /\ CellAt(buffer, 0, 0).fg = At(ANSI_COLORS, 1)
    /\ CellAt(buffer, 1, 0) = [character |-> Ch("a"), fg |-> At(ANSI_COLORS, 1),
                               bg |-> At(ANSI_COLORS, 2), attrs |-> CellAttributesDefault]
    /\ scrollback_len(buffer) = 1
    /\ buffer.current_fg = At(ANSI_COLORS, 1)

\* -------------------------------------------------------------- SpecPaint
\* The pen and the grid.  A terminal with one row of scrollback receives a
\* letter in red on green (the pen set before it and reset after it, in one
\* call), line feeds, and SGR sequences of every family, well formed and cut
\* short, while letters are on the screen and in the scrollback.

PRINT_RED == SGR_RED_ON_GREEN \o Bytes(<<"a">>) \o SGR_RESET_0

SGR_BOLD_BRIGHT == Csi(<<"1", ";", "9", "2", "m">>)
SGR_EXTENDED ==
    Csi(<<"3", "8", ";", "5", ";", "2", "0", "0", ";",
          "4", "8", ";", "2", ";", "1", ";", "2", ";", "3", "m">>)

PaintSgr == {SGR_BOLD_BRIGHT, SGR_EXTENDED, SGR_RESET_0, SGR_38_5}

InitPaint ==
    \E cols \in 1..MaxCols, rows \in 1..MaxRows : New(cols, rows, 1)

NextPaint ==
    \E data \in PaintSgr \cup {PRINT_RED, <<LF>>} : Process(data) /\ UNCHANGED fed

SpecPaint == InitPaint /\ [][NextPaint]_vars

\* C25: an SGR sequence changes current_fg, current_bg and current_attrs
\* only: every cell of the grid, the scrollback, the cursor, the modes and
\* the scroll region are as they were.
C25_PenLeavesScreen ==
    [][(\E data \in PaintSgr : Processes(data))
        => buffer' = [buffer EXCEPT !.current_fg = buffer'.current_fg,
                                    !.current_bg = buffer'.current_bg,
                                    !.current_attrs = buffer'.current_attrs]]_vars

\* the pen was set to a 256-colour fg and a truecolour bg with a red-on-green
\* letter on the screen and a row in the scrollback
C25_Witness ==
    /\ last.op = "process"
    /\ last.data = SGR_EXTENDED
    /\ Pen(buffer) = [fg |-> color_from_256(200), bg |-> rgb(1, 2, 3),
                      attrs |-> CellAttributesDefault]
    /\ CellAt(buffer, 0, 0) = [character |-> Ch("a"), fg |-> At(ANSI_COLORS, 1),
                               bg |-> At(ANSI_COLORS, 2), attrs |-> CellAttributesDefault]
    /\ scrollback_len(buffer) = 1

\* -------------------------------------------------------------- SpecLines
\* Insert and delete lines.  Terminals of up to MaxRegionRows rows receive a
\* letter, line feeds, cursor positions in every row, scroll regions that
\* start and end at every row, and CSI L and CSI M with counts 1 and 2.

INSERT_LINES_1 == Csi(<<"1", "L">>)
INSERT_LINES_2 == Csi(<<"2", "L">>)
DELETE_LINES_1 == Csi(<<"1", "M">>)
DELETE_LINES_2 == Csi(<<"2", "M">>)

LineEdits == {INSERT_LINES_1, INSERT_LINES_2, DELETE_LINES_1, DELETE_LINES_2}

LinesInputs ==
    {Bytes(<<"a">>), <<LF>>, <<CR>>,
     Csi(<<"H">>), Csi(<<"2", "H">>), Csi(<<"3", "H">>),
     Csi(<<"r">>), Csi(<<"2", "r">>), Csi(<<"1", ";", "2", "r">>),
     Csi(<<"2", ";", "2", "r">>), Csi(<<"1", ";", "1", "r">>)}

InitLines ==
    \E cols \in 1..MaxCols, rows \in 1..MaxRegionRows : New(cols, rows, 0)

NextLines ==
    \E data \in LinesInputs \cup LineEdits : Process(data) /\ UNCHANGED fed

SpecLines == InitLines /\ [][NextLines]_vars

\* the cursor row of b is in the scroll region
CursorInRegion(b) == b.scroll_top <= b.cursor_y /\ b.cursor_y <= b.scroll_bottom

\* what CSI L and CSI M may change with the cursor in the region: nothing
\* but the rows from the cursor row to scroll_bottom
OnlyRegionRowsFromCursor ==
    /\ [buffer' EXCEPT !.screen = buffer.screen] = buffer
    /\ Len(buffer'.screen) = buffer.size.rows
    /\ \A y \in 0..(buffer.size.rows - 1) :
          (y < buffer.cursor_y \/ y > buffer.scroll_bottom)
             => At(buffer'.screen, y) = At(buffer.screen, y)

\* C26: insert_lines(n) and delete_lines(n) change nothing when the cursor
\* row is above scroll_top or below scroll_bottom; otherwise they change
\* only rows in [cursor.y, scroll_bottom], and the grid keeps its rows.
C26_LineEditsInRegion ==
    [][(\E data \in LineEdits : Processes(data))
        => IF CursorInRegion(buffer) THEN OnlyRegionRowsFromCursor
           ELSE buffer' = buffer]_vars

\* the part of C26 that the code keeps: the cursor in the region or below it
C26_LineEditsFromRegionDown ==
    [][((\E data \in LineEdits : Processes(data)) /\ buffer.scroll_top <= buffer.cursor_y)
        => IF CursorInRegion(buffer) THEN OnlyRegionRowsFromCursor
           ELSE buffer' = buffer]_vars

\* -------------------------------------------------------------- SpecShift
\* Scrolling in the region.  Terminals of up to MaxRegionRows rows receive a
\* letter, cursor positions in every row, scroll regions that start and end
\* at every row, and scrolls up and down: ESC D and ESC M, and CSI S and
\* CSI T with counts from 1 to one more than the rows of the largest region.

SCROLL_UP_1 == Csi(<<"1", "S">>)
SCROLL_UP_2 == Csi(<<"2", "S">>)
SCROLL_UP_4 == Csi(<<"4", "S">>)
SCROLL_DOWN_1 == Csi(<<"1", "T">>)
SCROLL_DOWN_2 == Csi(<<"2", "T">>)
SCROLL_DOWN_4 == Csi(<<"4", "T">>)

ScrollsUp == {SCROLL_UP_1, SCROLL_UP_2, SCROLL_UP_4, Esc("D")}
ScrollsDown == {SCROLL_DOWN_1, SCROLL_DOWN_2, SCROLL_DOWN_4, Esc("M")}

\* the count of lines a scroll sequence of SpecShift asks for
ScrollCount(data) ==
    IF data \in {SCROLL_UP_2, SCROLL_DOWN_2} THEN 2
    ELSE IF data \in {SCROLL_UP_4, SCROLL_DOWN_4} THEN 4
    ELSE 1

ShiftInputs ==
    {Bytes(<<"a">>), <<CR>>,
     Csi(<<"H">>), Csi(<<"2", "H">>), Csi(<<"3", "H">>),
     Csi(<<"r">>), Csi(<<"2", "r">>), Csi(<<"1", ";", "2", "r">>),
     Csi(<<"2", ";", "2", "r">>)}

NextShift ==
    \E data \in ShiftInputs \cup ScrollsUp \cup ScrollsDown : Process(data) /\ UNCHANGED fed

SpecShift == InitLines /\ [][NextShift]_vars

\* a row of the grid of b of default cells
DefaultRow(b) == [x \in 1..b.size.cols |-> CellDefault]

\* C27: scroll_up(n) and scroll_down(n) leave the cursor and every row
\* outside [scroll_top, scroll_bottom] as they are; inside the region the rows
\* that stay are moved by n in their order, and the rows vacated, at the
\* bottom for scroll_up and at the top for scroll_down, are rows of cols
\* default cells; n larger than the region leaves the whole region default.
C27_ScrollInRegion ==
    [][(\E data \in ScrollsUp \cup ScrollsDown : Processes(data))
        => /\ cursor_position(buffer') = cursor_position(buffer)
           /\ Len(buffer'.screen) = buffer.size.rows
           /\ \A y \in 0..(buffer.size.rows - 1) :
                At(buffer'.screen, y) =
                   IF y < buffer.scroll_top \/ y > buffer.scroll_bottom
                   THEN At(buffer.screen, y)
                   ELSE IF last'.data \in ScrollsUp
                   THEN IF y + ScrollCount(last'.data) <= buffer.scroll_bottom
                        THEN At(buffer.screen, y + ScrollCount(last'.data))
                        ELSE DefaultRow(buffer)
                   ELSE IF y - ScrollCount(last'.data) >= buffer.scroll_top
                        THEN At(buffer.screen, y - ScrollCount(last'.data))
                        ELSE DefaultRow(buffer)]_vars

\* CSI 1 T in a region of the last two of MaxRegionRows rows: the letter of
\* the region's first row is now in its second row, the first row is
\* default, and the letter in the row above the region is where it was
C27_Witness ==
    /\ last.op = "process"
    /\ last.data = SCROLL_DOWN_1
    /\ buffer.size.rows = MaxRegionRows
    /\ buffer.scroll_top = MaxRegionRows - 2
    /\ buffer.scroll_bottom = MaxRegionRows - 1
    /\ CellAt(buffer, 0, MaxRegionRows - 3).character = Ch("a")
    /\ At(buffer.screen, MaxRegionRows - 2) = DefaultRow(buffer)
    /\ CellAt(buffer, 0, MaxRegionRows - 1).character = Ch("a")

\* -------------------------------------------------------------- SpecChars
\* Insert and delete characters.  Terminals of up to MaxEditCols columns and
\* two rows receive two letters, cursor positions in every column and row,
\* including the column past the last one that a letter in the last column
\* leaves, and CSI @ and CSI P with counts from 1 to more than the columns.

MaxEditCols == 3

INSERT_BLANK_1 == Csi(<<"1", "@">>)
INSERT_BLANK_2 == Csi(<<"2", "@">>)
INSERT_BLANK_4 == Csi(<<"4", "@">>)
DELETE_CHARS_1 == Csi(<<"1", "P">>)
DELETE_CHARS_2 == Csi(<<"2", "P">>)
DELETE_CHARS_4 == Csi(<<"4", "P">>)

Inserts == {INSERT_BLANK_1, INSERT_BLANK_2, INSERT_BLANK_4}
Deletes == {DELETE_CHARS_1, DELETE_CHARS_2, DELETE_CHARS_4}

\* the count a sequence of Inserts or Deletes asks for
EditCount(data) ==
    IF data \in {INSERT_BLANK_1, DELETE_CHARS_1} THEN 1
    ELSE IF data \in {INSERT_BLANK_2, DELETE_CHARS_2} THEN 2
    ELSE 4

CharsInputs ==
    {Bytes(<<"a">>), Bytes(<<"b">>), <<CR>>, Csi(<<"1", "C">>),
     Csi(<<"H">>), Csi(<<"2", "H">>)}

InitChars ==
    \E cols \in 1..MaxEditCols, rows \in 1..2 : New(cols, rows, 0)

NextChars ==
    \E data \in CharsInputs \cup Inserts \cup Deletes : Process(data) /\ UNCHANGED fed

SpecChars == InitChars /\ [][NextChars]_vars

\* by how many cells CSI n @ and CSI n P move the cells from the cursor on:
\* min(n, cols - x), and 0 with the cursor past the last column
ShiftBy(b, n) ==
    IF b.cursor_x >= b.size.cols THEN 0 ELSE Min(n, b.size.cols - b.cursor_x)

\* C28: insert_blank(n) and delete_chars(n) leave the cursor, every other row
\* and the cells left of the cursor as they are; the cursor row keeps cols
\* cells, those from the cursor on moved right (insert) or left (delete) by
\* min(n, cols - x), the places vacated default cells, and the cells moved
\* past the last column gone.
C28_CharEditsOneRow ==
    [][(\E data \in Inserts \cup Deletes : Processes(data))
        => /\ cursor_position(buffer') = cursor_position(buffer)
           /\ Len(buffer'.screen) = Len(buffer.screen)
           /\ \A y \in 0..(buffer.size.rows - 1) :
                /\ Len(At(buffer'.screen, y)) = buffer.size.cols
                /\ y # buffer.cursor_y => At(buffer'.screen, y) = At(buffer.screen, y)
           /\ \A x \in 0..(buffer.size.cols - 1) :
                CellAt(buffer', x, buffer.cursor_y) =
                   IF x < buffer.cursor_x
                   THEN CellAt(buffer, x, buffer.cursor_y)
                   ELSE IF last'.data \in Inserts
                   THEN IF x < buffer.cursor_x + ShiftBy(buffer, EditCount(last'.data))
                        THEN CellDefault
                        ELSE CellAt(buffer, x - ShiftBy(buffer, EditCount(last'.data)),
                                    buffer.cursor_y)
                   ELSE IF x + ShiftBy(buffer, EditCount(last'.data)) < buffer.size.cols
                        THEN CellAt(buffer, x + ShiftBy(buffer, EditCount(last'.data)),
                                    buffer.cursor_y)
                        ELSE CellDefault]_vars

\* CSI 1 @ in column 1 of a row "ab?" of MaxEditCols cells: the row is now
\* 'a', a default cell, 'b', and the row below still has its letter
C28_Witness ==
    /\ last.op = "process"
    /\ last.data = INSERT_BLANK_1
    /\ buffer.size.cols = MaxEditCols
    /\ buffer.size.rows = 2
    /\ cursor_position(buffer) = <<1, 0>>
    /\ CellAt(buffer, 0, 0).character = Ch("a")
    /\ CellAt(buffer, 1, 0) = CellDefault
    /\ CellAt(buffer, MaxEditCols - 1, 0).character = Ch("b")
    /\ CellAt(buffer, 0, 1).character = Ch("b")

\* ------------------------------------------------------------- SpecNewline
\* The newline rule.  Terminals of up to MaxRegionRows rows receive a letter,
\* LF, VT and FF, cursor positions in every row, and scroll regions that end
\* above the last row, so that the cursor is above, on and below
\* scroll_bottom.

VT == 11
FF == 12

Newlines == {<<LF>>, <<VT>>, <<FF>>}

NewlineInputs ==
    {Bytes(<<"a">>),
     Csi(<<"H">>), Csi(<<"2", "H">>), Csi(<<"3", "H">>),
     Csi(<<"r">>), Csi(<<"1", ";", "1", "r">>), Csi(<<"1", ";", "2", "r">>),
     Csi(<<"2", ";", "2", "r">>)}

NextNewline ==
    \E data \in NewlineInputs \cup Newlines : Process(data) /\ UNCHANGED fed

SpecNewline == InitLines /\ [][NextNewline]_vars

\* the step scrolls the region up by one line and leaves the cursor
ScrollsRegion ==
    /\ buffer'.screen = scroll_up(buffer, 1).screen
    /\ buffer'.scrollback = scroll_up(buffer, 1).scrollback
    /\ cursor_position(buffer') = cursor_position(buffer)

\* the step moves the cursor down by one row and leaves the grid
MovesDown ==
    /\ buffer'.screen = buffer.screen
    /\ buffer'.scrollback = buffer.scrollback
    /\ cursor_position(buffer') = <<buffer.cursor_x, buffer.cursor_y + 1>>

\* C29: LF, VT and FF scroll the region up by one line, the cursor staying,
\* exactly when cursor.y = scroll_bottom; in every other case, the cursor
\* below the scroll region included, there is no scroll and cursor.y grows
\* by 1; cursor.x stays in both cases.
C29_NewlineRule ==
    [][(\E data \in Newlines : Processes(data))
        => IF buffer.cursor_y = buffer.scroll_bottom
           THEN ScrollsRegion
           ELSE MovesDown]_vars

\* the rule of C29 for a cursor on or above scroll_bottom
C29_NewlineNotBelowRegion ==
    [][((\E data \in Newlines : Processes(data))
         /\ buffer.cursor_y <= buffer.scroll_bottom)
        => IF buffer.cursor_y = buffer.scroll_bottom
           THEN ScrollsRegion
           ELSE MovesDown]_vars

\* ------------------------------------------------------------- SpecDefault
\* CSI sequences without a parameter.  Terminals of up to MaxRegionRows rows
\* receive a letter, CR, and the sequences ESC [ c with no parameter for the
\* cursor moves A, B, C, D and for the counted edits L, M, P, S, T, X, @.

CountedFinals == {"L", "M", "P", "S", "T", "X", "@"}
MoveFinals == {"A", "B", "C", "D"}

\* ESC [ c and ESC [ 1 c
Absent(c) == Csi(<<c>>)
Explicit1(c) == Csi(<<"1", c>>)

DefaultInputs ==
    {Bytes(<<"a">>), <<CR>>} \cup {Absent(c) : c \in CountedFinals \cup MoveFinals}

NextDefault ==
    \E data \in DefaultInputs : Process(data) /\ UNCHANGED fed

SpecDefault == InitLines /\ [][NextDefault]_vars

\* C30: ESC [ c with no parameter, c one of L, M, P, S, T, X, @, leaves the
\* buffer that ESC [ 1 c leaves from the same state.
C30_DefaultCountIsOne ==
    [][\A c \in CountedFinals :
          Processes(Absent(c)) => buffer' = process(Terminal, Explicit1(c)).buffer]_vars

\* ESC [ c with no parameter, c one of A, B, C, D, leaves the buffer that
\* ESC [ 1 c leaves from the same state
C30_DefaultMoveIsOne ==
    [][\A c \in MoveFinals :
          Processes(Absent(c)) => buffer' = process(Terminal, Explicit1(c)).buffer]_vars

\* ESC [ c with no parameter, c one of L, M, P, S, T, X, @, leaves the buffer
\* as it was
C30_AbsentCountIsZero ==
    [][\A c \in CountedFinals : Processes(Absent(c)) => buffer' = buffer]_vars

\* ---------------------------------------------------------------- SpecMode
\* DEC-private and ANSI modes.  A terminal of 1 x MaxRows receives a
\* letter, which takes the cursor off the origin, the mode sequences that act
\* (?6 h and l, ?7 l, ?1049 h and l, 4 h), and the same numbers with the
\* other kind of introducer, with ?1 and ?25.

RESET_WRAP == Csi(<<"?", "7", "l">>)
SET_INSERT == Csi(<<"4", "h">>)

ActingModes ==
    {SET_ORIGIN, RESET_ORIGIN, RESET_WRAP, SET_1049, RESET_1049, SET_INSERT}

\* the numbers of the DEC-private modes without '?'
AnsiOfDecModes ==
    {Csi(<<"6", f>>) : f \in {"h", "l"}}
      \cup {Csi(<<"7", f>>) : f \in {"h", "l"}}
      \cup {Csi(<<"4", "7", "h">>), Csi(<<"1", "0", "4", "7", "h">>)}
      \cup {Csi(<<"1", "0", "4", "9", f>>) : f \in {"h", "l"}}

\* the number of the ANSI mode with '?'
DecOfAnsiMode == {Csi(<<"?", "4", f>>) : f \in {"h", "l"}}

IgnoredDecModes ==
    {Csi(<<"?", "1", f>>) : f \in {"h", "l"}}
      \cup {Csi(<<"?", "2", "5", f>>) : f \in {"h", "l"}}

ModeInputs == {Bytes(<<"a">>)}

InitMode == New(1, MaxRows, 0)

NextMode ==
    \E data \in ModeInputs \cup ActingModes \cup AnsiOfDecModes
                  \cup DecOfAnsiMode \cup IgnoredDecModes :
        Process(data) /\ UNCHANGED fed

SpecMode == InitMode /\ [][NextMode]_vars

\* C31: CSI 6, 7, 47, 1047, 1049 h/l without '?', CSI ?4 h/l, CSI ?1 h/l and
\* CSI ?25 h/l leave every field of the buffer as it was: the modes 6, 7, 47,
\* 1047 and 1049 act only with '?', and mode 4 only without it.
C31_ModesByIntroducer ==
    [][(\E data \in AnsiOfDecModes \cup DecOfAnsiMode \cup IgnoredDecModes :
            Processes(data))
        => buffer' = buffer]_vars

\* CSI 1049 l without '?' on the alternate screen that CSI ?1049 h opened,
\* in insert mode and with origin mode and auto-wrap as CSI ?6 h and CSI ?7 l
\* left them: the terminal is still on the alternate screen
C31_Witness ==
    /\ last.op = "process"
    /\ last.data = Csi(<<"1", "0", "4", "9", "l">>)
    /\ buffer.alternate_screen # None
    /\ buffer.insert_mode
    /\ buffer.origin_mode
    /\ ~buffer.auto_wrap

\* ----------------------------------------------------------- SpecSgrResets
\* The SGR codes 1..9 and 21..29.  A terminal receives ESC [ k m and
\* ESC [ 2k m for every k of 1..9, one code a sequence, and a sequence that
\* sets both colours of the pen.

SgrDigits == <<"1", "2", "3", "4", "5", "6", "7", "8", "9">>

\* ESC [ k m and ESC [ 2 k m
SgrSet(k) == Csi(<<SgrDigits[k], "m">>)
SgrResetOf(k) == Csi(<<"2", SgrDigits[k], "m">>)

NextSgrResets ==
    \E data \in {SgrSet(k) : k \in 1..9} \cup {SgrResetOf(k) : k \in 1..9}
                  \cup {SGR_RED_ON_GREEN} :
        Process(data) /\ UNCHANGED fed

SpecSgrResets == InitMode /\ [][NextSgrResets]_vars

\* attrs without the attribute that the code k of 1..9 sets
WithoutAttr(attrs, k) ==
    IF k = 1 THEN [attrs EXCEPT !.bold = FALSE]
    ELSE IF k = 2 THEN [attrs EXCEPT !.dim = FALSE]
    ELSE IF k = 3 THEN [attrs EXCEPT !.italic = FALSE]
    ELSE IF k = 4 THEN [attrs EXCEPT !.underline = FALSE]
    ELSE IF k = 5 \/ k = 6 THEN [attrs EXCEPT !.blink = FALSE]
    ELSE IF k = 7 THEN [attrs EXCEPT !.inverse = FALSE]
    ELSE IF k = 8 THEN [attrs EXCEPT !.hidden = FALSE]
    ELSE [attrs EXCEPT !.strikethrough = FALSE]

\* the step by ESC [ 2k m clears the attribute of the code k and nothing else
\* of the pen
ClearsOnly(k) ==
    Processes(SgrResetOf(k))
      => /\ buffer'.current_attrs = WithoutAttr(buffer.current_attrs, k)
         /\ buffer'.current_fg = buffer.current_fg
         /\ buffer'.current_bg = buffer.current_bg

\* C32: for every k in 1..9 the SGR code 20+k clears the attribute that the
\* code k sets and leaves every other attribute and both colours of the pen.
C32_MatchingResets == [][\A k \in 1..9 : ClearsOnly(k)]_vars

\* the codes 23, 24, 25, 27, 28 and 29 do so
C32_ResetsBut21_22_26 == [][\A k \in {3, 4, 5, 7, 8, 9} : ClearsOnly(k)]_vars

\* ------------------------------------------------------------ SpecExtended
\* Extended colours in an SGR list.  A terminal receives SGR sequences made
\* of a list of plain codes, one group 38;5;N, 48;5;N, 38;2;R;G;B or
\* 48;2;R;G;B whose values are themselves SGR codes, and a list of plain
\* codes; both lists may be empty, so that the group is also first and last.

\* the decimal digits of n as bytes
RECURSIVE DecBytes(_)
DecBytes(n) ==
    IF n < 10 THEN <<48 + n>> ELSE DecBytes(n \div 10) \o <<48 + (n % 10)>>

RECURSIVE JoinParams(_)
JoinParams(ps) ==
    IF Len(ps) = 1 THEN DecBytes(ps[1])
    ELSE DecBytes(ps[1]) \o <<59>> \o JoinParams(Tail(ps))

\* ESC [ p1 ; ... ; pn m
SgrSeq(ps) == <<ESC, 91>> \o JoinParams(ps) \o <<109>>

\* a group: its slots, the colour it names, and whether it is for fg
ColourGroups ==
    {[slots |-> <<38, 5, 1>>, colour |-> At(ANSI_COLORS, 1), fg |-> TRUE],
     [slots |-> <<48, 5, 7>>, colour |-> At(ANSI_COLORS, 7), fg |-> FALSE],
     [slots |-> <<38, 2, 1, 3, 4>>, colour |-> rgb(1, 3, 4), fg |-> TRUE],
     [slots |-> <<48, 2, 9, 5, 1>>, colour |-> rgb(9, 5, 1), fg |-> FALSE]}

CodesBefore == {<<>>, <<0>>, <<1>>, <<9>>}
CodesAfter == {<<>>, <<4>>, <<31>>}

ExtendedSeq(pre, g, post) == SgrSeq(pre \o g.slots \o post)

NextExtended ==
    \E pre \in CodesBefore, g \in ColourGroups, post \in CodesAfter :
        Process(ExtendedSeq(pre, g, post)) /\ UNCHANGED fed

SpecExtended == InitMode /\ [][NextExtended]_vars

\* the plain codes of a list applied in their order
RECURSIVE ApplyCodes(_, _)
ApplyCodes(b, codes) ==
    IF codes = <<>> THEN b ELSE ApplyCodes(SgrCode(b, Head(codes)), Tail(codes))

\* the colour of the group g given to the pen
ApplyGroup(b, g) ==
    IF g.fg THEN [b EXCEPT !.current_fg = g.colour] ELSE [b EXCEPT !.current_bg = g.colour]

\* C33: a group 38;5;N, 48;5;N, 38;2;R;G;B or 48;2;R;G;B, first, in the
\* middle or last in an SGR list, takes its three or five slots: the pen is
\* the pen after the codes before the group, the colour of the group, and the
\* codes after the group, and no value of the group is applied as a code.
C33_ExtendedColourSlots ==
    [][\A pre \in CodesBefore, g \in ColourGroups, post \in CodesAfter :
          Processes(ExtendedSeq(pre, g, post))
            => Pen(buffer') = Pen(ApplyCodes(ApplyGroup(ApplyCodes(buffer, pre), g), post))]_vars

\* ESC [ 0;38;5;1;4 m: the fg is palette entry 1, underline is the one
\* attribute set, and bold, the code of the value 1, is not
C33_Witness ==
    /\ last.op = "process"
    /\ last.data = ExtendedSeq(<<0>>, [slots |-> <<38, 5, 1>>, colour |-> At(ANSI_COLORS, 1), fg |-> TRUE], <<4>>)
    /\ buffer.current_fg = At(ANSI_COLORS, 1)
    /\ buffer.current_attrs = [CellAttributesDefault EXCEPT !.underline = TRUE]

\* ------------------------------------------------------------- SpecPalette
\* The 256-colour table.  A terminal receives ESC [ 38;5;N m for every N of
\* 0..255, in any order.

PaletteSeq(n) == SgrSeq(<<38, 5, n>>)

NextPalette == \E n \in 0..255 : Process(PaletteSeq(n)) /\ UNCHANGED fed

SpecPalette == InitMode /\ [][NextPalette]_vars

\* c is the colour of the table for the index n: a base colour, a bright
\* colour, a colour of the 6 x 6 x 6 cube in steps of 51, or a grey
TableColour(n, c) ==
    /\ c.r \in 0..255 /\ c.g \in 0..255 /\ c.b \in 0..255
    /\ n <= 7 => c = At(ANSI_COLORS, n)
    /\ (8 <= n /\ n <= 15) => c = At(ANSI_BRIGHT_COLORS, n - 8)
    /\ (16 <= n /\ n <= 231)
         => c = rgb(51 * ((n - 16) \div 36), 51 * (((n - 16) \div 6) % 6),
                    51 * ((n - 16) % 6))
    /\ 232 <= n => (c.r = c.g /\ c.g = c.b)

\* C34: ESC [ 38;5;N m gives the pen the fg of the table for every N of
\* 0..255, with every component in 0..255, and of two greys N - 1 and N of
\* 232..255 set one after the other the second is the lighter.
C34_PaletteTable ==
    [][\A n \in 0..255 :
          Processes(PaletteSeq(n))
            => /\ TableColour(n, buffer'.current_fg)
               /\ (n >= 233 /\ last.op = "process" /\ last.data = PaletteSeq(n - 1))
                    => buffer'.current_fg.r > buffer.current_fg.r]_vars

\* ESC [ 38;5;255 m has set the lightest grey of the ramp
C34_Witness ==
    /\ last.op = "process"
    /\ last.data = PaletteSeq(255)
    /\ buffer.current_fg = rgb(238, 238, 238)

\* -------------------------------------------------------------- SpecOrigin
\* Origin mode.  Terminals of up to MaxRegionRows rows receive scroll regions
\* that start and end at every row, CSI ?6 h and CSI ?6 l, and CSI r;c H and
\* CSI r;c f for rows and columns from 1 to one past the grid.

\* ESC [ r ; c H and ESC [ r ; c f
CursorTo(r, c, final) == <<ESC, 91>> \o DecBytes(r) \o <<59>> \o DecBytes(c) \o Bytes(<<final>>)

AddressRows == 1..(MaxRegionRows + 1)
AddressCols == 1..(MaxCols + 1)

OriginRegions ==
    {Csi(<<"r">>), Csi(<<"2", "r">>), Csi(<<"3", "r">>), Csi(<<"1", ";", "2", "r">>),
     Csi(<<"2", ";", "2", "r">>), Csi(<<"1", ";", "1", "r">>)}

NextOrigin ==
    \/ \E data \in OriginRegions \cup {SET_ORIGIN, RESET_ORIGIN} :
            Process(data) /\ UNCHANGED fed
    \/ \E r \in AddressRows, c \in AddressCols, final \in {"H", "f"} :
            Process(CursorTo(r, c, final)) /\ UNCHANGED fed

SpecOrigin == InitLines /\ [][NextOrigin]_vars

\* C35: CSI ?6 h puts the cursor at (0, scroll_top); in origin mode
\* CSI r;c H and CSI r;c f put it at row min(scroll_top + r - 1,
\* scroll_bottom), a row of the region, and column min(c - 1, cols - 1);
\* CSI ?6 l leaves the cursor where it is.
C35_OriginAddressing ==
    [][/\ Processes(SET_ORIGIN)
            => cursor_position(buffer') = <<0, buffer.scroll_top>>
       /\ Processes(RESET_ORIGIN)
            => cursor_position(buffer') = cursor_position(buffer)
       /\ \A r \in AddressRows, c \in AddressCols, final \in {"H", "f"} :
            (buffer.origin_mode /\ Processes(CursorTo(r, c, final)))
              => /\ buffer'.cursor_x = Min(c - 1, buffer.size.cols - 1)
                 /\ buffer'.cursor_y = Min(buffer.scroll_top + r - 1, buffer.scroll_bottom)
                 /\ buffer.scroll_top <= buffer'.cursor_y
                 /\ buffer'.cursor_y <= buffer.scroll_bottom]_vars

\* CSI 2;2 H in origin mode in the region of the rows 1..1 of MaxRegionRows
\* rows: the row addressed is past scroll_bottom and the cursor is on
\* scroll_bottom, in the last column
C35_Witness ==
    /\ last.op = "process"
    /\ last.data = CursorTo(2, 2, "H")
    /\ buffer.origin_mode
    /\ buffer.size.rows = MaxRegionRows
    /\ buffer.size.cols = MaxCols
    /\ buffer.scroll_top = 1
    /\ buffer.scroll_bottom = 1
    /\ cursor_position(buffer) = <<MaxCols - 1, 1>>

\* ---------------------------------------------------------------- SpecAxis
\* Cursor moves along one axis.  Terminals of up to MaxRegionRows rows receive
\* a letter, LF, scroll regions that start at row 0 and below it, CSI ?6 h and
\* CSI ?6 l, and the moves CSI n C, CSI n D, CSI n G, BS, CSI n A, CSI n B and
\* CSI n d for n of 1 and 2.

AxisCounts == {1, 2}

\* ESC [ n c
Counted(n, c) == <<ESC, 91>> \o DecBytes(n) \o Bytes(<<c>>)

AxisInputs ==
    {Bytes(<<"a">>), <<LF>>, Csi(<<"r">>), Csi(<<"2", "r">>), Csi(<<"2", ";", "2", "r">>),
     SET_ORIGIN, RESET_ORIGIN}

NextAxis ==
    \/ \E data \in AxisInputs \cup {<<BS>>} : Process(data) /\ UNCHANGED fed
    \/ \E n \in AxisCounts, c \in {"A", "B", "C", "D", "G", "d"} :
            Process(Counted(n, c)) /\ UNCHANGED fed

SpecAxis == InitLines /\ [][NextAxis]_vars

\* the first and the last row that the cursor of b may be moved to
FirstRow(b) == IF b.origin_mode THEN b.scroll_top ELSE 0
LastRow(b) == IF b.origin_mode THEN b.scroll_bottom ELSE b.size.rows - 1

\* what the moves of SpecAxis do to the cursor in this step
OneAxis ==
    /\ (Processes(<<BS>>) \/ \E n \in AxisCounts, c \in {"C", "D", "G"} : Processes(Counted(n, c)))
         => buffer'.cursor_y = buffer.cursor_y
    /\ \A n \in AxisCounts :
         /\ Processes(Counted(n, "A"))
              => /\ buffer'.cursor_y = Max(buffer.cursor_y - n, FirstRow(buffer))
                 /\ buffer.cursor_x < buffer.size.cols => buffer'.cursor_x = buffer.cursor_x
         /\ Processes(Counted(n, "B"))
              => /\ buffer'.cursor_y = Min(buffer.cursor_y + n, LastRow(buffer))
                 /\ buffer.cursor_x < buffer.size.cols => buffer'.cursor_x = buffer.cursor_x
         /\ Processes(Counted(n, "d"))
              => (buffer.cursor_x < buffer.size.cols => buffer'.cursor_x = buffer.cursor_x)

\* C36: in every state, origin mode with scroll_top > 0 included, CSI n C,
\* CSI n D, CSI n G and BS leave cursor.y; CSI n A and CSI n B move cursor.y
\* by n, stopped at the first and the last row allowed, and leave a cursor.x
\* that is in bounds; CSI n d leaves cursor.x.
C36_OneAxisMoves == [][OneAxis]_vars

\* the same with origin mode off
C36_OneAxisMovesAbsolute == [][~buffer.origin_mode => OneAxis]_vars

\* ------------------------------------------------------------- SpecPrivate
\* DEC-private and unsupported sequences in the VtParser.  A VtParser is
\* given, one byte per call, ESC, '[', '?', the digits 2 and 5, ';', the final
\* bytes h, l and X, which handle_csi_command does not know, and the letter a.

PrivateBytes ==
    {ESC, Ch("["), Ch("?"), Ch("2"), Ch("5"), Ch(";"), Ch("h"), Ch("l"), Ch("X"), Ch("a")}

UnsupportedFinals == {Ch("h"), Ch("l"), Ch("X"), Ch("a")}

NextPrivate == \E byte \in PrivateBytes : Parse(byte)

SpecPrivate == InitVt /\ [][NextPrivate]_vars

\* the call before this one was given the '?' that follows ESC [
AfterPrivateMarker ==
    /\ last.op = "parse"
    /\ last.before.state = "Csi"
    /\ last.data = Ch("?")
    /\ vt_seq = <<ESC, Ch("["), Ch("?")>>

\* the call before this one was given the final byte of a CSI sequence that
\* handle_csi_command does not know
AfterUnsupportedFinal ==
    /\ last.op = "parse"
    /\ last.before.state = "Csi"
    /\ last.data \in UnsupportedFinals

\* a CSI sequence with a final byte that is not known is taken whole: no byte
\* of it is printed, its final byte leaves the parser in Normal, and the
\* letter after it is printed
UnsupportedAbsorbed ==
    /\ vt.state = "Csi" => last'.ret = None
    /\ (vt.state = "Csi" /\ last'.data \in UnsupportedFinals) => vt'.state = "Normal"
    /\ (AfterUnsupportedFinal /\ last'.data = Ch("a")) => last'.ret = Some(VtPrint(Ch("a")))

\* C37: ESC [ ? Pn h and ESC [ ? Pn l are taken whole like a CSI sequence
\* with a final byte that is not known: parse returns no Print for a byte of
\* the sequence, so none for the digits after ESC [ ?, the parser is in
\* Normal after the final byte, and the byte after it is taken as usual.
C37_PrivateAbsorbed ==
    [][/\ UnsupportedAbsorbed
       /\ (AfterPrivateMarker /\ IsDigit(last'.data))
            => last'.ret = None]_vars

\* the part of C37 for the sequences without '?'
C37_UnsupportedFinalAbsorbed == [][UnsupportedAbsorbed]_vars

\* --------------------------------------------------------------- SpecShape
\* The shape of the grid.  Terminals of up to MaxCols x MaxRows receive, in
\* any order, blanks and line feeds by process and by write, CSI ?1049 h and
\* CSI ?1049 l, line insertion and deletion, clear(), and resize to every
\* size of 1..MaxCols x 1..MaxRows.

ShapeInputs ==
    {<<SPACE>>, <<LF>>, SET_1049, RESET_1049, Csi(<<"1", "L">>), Csi(<<"1", "M">>)}

NextShape ==
    \/ \E data \in ShapeInputs : Process(data) /\ UNCHANGED fed
    \/ \E text \in {<<SPACE>>, <<LF>>} : Write(text) /\ UNCHANGED fed
    \/ Clear /\ UNCHANGED fed
    \/ \E cols \in 1..MaxCols, rows \in 1..MaxRows : Resize(cols, rows) /\ UNCHANGED fed

SpecShape == Init /\ [][NextShape]_vars

\* the screen of b has size.rows rows of size.cols cells
GridShape(b) ==
    /\ Len(b.screen) = b.size.rows
    /\ \A y \in 1..Len(b.screen) : Len(b.screen[y]) = b.size.cols

\* C38: after any process, write, clear and resize to cols, rows >= 1, a
\* resize on the alternate screen and the return to the main screen included,
\* the screen has size().rows rows of size().cols cells each.
C38_GridShape == GridShape(buffer)

\* the grid has its shape on the alternate screen
C38_GridShapeOnAlternate == ~buffer.alternate_screen.none => GridShape(buffer)

\* ------------------------------------------------------------- SpecSession
\* A 1049 session.  The terminal receives ESC[?1049h on the primary screen
\* only, and after it a letter, line feeds, ESC[2J, the cursor saves and
\* restores ESC 7, ESC 8, CSI s and CSI u, and ESC[?1049l; no other switch of
\* the alternate screen is sent.

SessionInputs ==
    {Bytes(<<"a">>), <<LF>>, ERASE_ALL, Esc("7"), Esc("8"), Csi(<<"s">>), Csi(<<"u">>),
     RESET_1049}

NextSession ==
    \/ \E data \in SessionInputs : Process(data) /\ UNCHANGED fed
    \/ ~AlternateActive(buffer) /\ Process(SET_1049) /\ UNCHANGED fed

SpecSession == InitAlt /\ [][NextSession]_vars

\* C39: ESC[?1049l on the alternate screen that ESC[?1049h opened from a
\* primary screen with the grid G and the cursor C leaves the grid G and the
\* cursor C, whatever was printed, scrolled, cleared, saved and restored in
\* between.
C39_SessionRestore ==
    [][(Processes(RESET_1049) /\ AlternateActive(buffer))
        => View(buffer') = snap.val]_vars

\* the grid of the primary screen is the grid G again
C39_SessionGridRestored ==
    [][(Processes(RESET_1049) /\ AlternateActive(buffer))
        => buffer'.screen = snap.val.screen]_vars

====
